---- MODULE Spec2Model ----
(***************************************************************************)
(* Bitswhispers: the client-side feed controller (ChatArea), the send gate *)
(* of MessageInput and the localStorage rate limiter (rate-limiter.ts).    *)
(*                                                                         *)
(* The specifications share the variables; each moves only the variables  *)
(* of its own component:                                                   *)
(*   Spec        the Message Feed Controller of ChatArea                   *)
(*   SpecRL      checkRateLimit of utils/rate-limiter.ts                   *)
(*   SpecGate    handleSubmit and the rate-limit state of MessageInput     *)
(*   SpecTabs    handleSubmit in several tabs over one localStorage        *)
(*   SpecStore   the stored records of utils/rate-limiter.ts               *)
(*   SpecRouter  the Channel Router of the Firebase client module          *)
(*   SpecSend    handleSubmit followed by sendMessage up to addDoc         *)
(*   SpecReport  reportMessage called by several clients                   *)
(*   SpecChat    the composer of ChatArea: reply, send, report, display    *)
(*   SpecNames   handleUsernameSet of Index over the RTDB reservations     *)
(* SpecLive and SpecChatLive are Spec and SpecChat with their scheduling.  *)
(***************************************************************************)
EXTENDS Integers, Sequences, FiniteSets, TLC

(***************************************************************************)
(* Bounds of the model.                                                    *)
(***************************************************************************)
\* Documents ever created in the store (all channels together).
MaxDocs == 3
\* Invocations of subscribeToMessages / handleLoadMore (async tasks).
MaxTasks == 3
\* limit(25) of the history and load-more queries, scaled down so that a
\* full page fits in MaxDocs documents.
PageSize == 2

(***************************************************************************)
(* Feed controller: state.                                                 *)
(***************************************************************************)
VARIABLES
  channel,      \* ChatArea's channel prop; NoChannel before mount / after unmount
  mounted,      \* whether the ChatArea instance is mounted
  messages,     \* useState messages: the Feed Window, a sequence of doc ids
  oldestDoc,    \* useState oldestDoc: doc id of the cursor, 0 for null
  hasMore,      \* useState hasMore
  isLoading,    \* useState isLoading
  liveSince,    \* liveSinceRef.current, as a created_at value
  docs,         \* the store: docs[i] is the channel of document i; created_at = i
  cache,        \* ids of the documents held by the persistent local cache
  signedIn,     \* channels whose Auth instance has a currentUser
  tasks,        \* the pending and finished async invocations, by id
  subs,         \* the onSnapshot listeners ever opened, by id
  unsubHandle,  \* window.__bitswhisper_unsub: id of the registered listener, 0 if unset
  toast         \* title of the toast() the latest step showed, NoToast if none

feedVars == <<channel, mounted, messages, oldestDoc, hasMore, isLoading, liveSince,
              docs, cache, signedIn, tasks, subs, unsubHandle, toast>>

\* rate-limiter.ts
VARIABLES
  rlNow,     \* Date.now() at the latest call
  rlStore,   \* localStorage: the value under each rate_limit_ key
  rlLog      \* per channel, the calls made so far: time and returned result

rlVars == <<rlNow, rlStore, rlLog>>

\* MessageInput
VARIABLES
  gNow,       \* Date.now() at the latest event
  rateLimit,  \* useState rateLimit of MessageInput
  lsGate,     \* localStorage: the value under 'message_rate_limit'
  gChannel,   \* the channel prop of MessageInput
  gLast,      \* the latest handleSubmit call: its input and whether it called onSendMessage
  gCooldown,  \* the cooldown imposed most recently, and what followed it
  gWinFirst   \* time of the first sent submission of the current burst window, 0 if none

gateVars == <<gNow, rateLimit, lsGate, gChannel, gLast, gCooldown, gWinFirst>>

\* Two tabs of one browser profile, each with its own MessageInput
VARIABLES
  tNow,       \* Date.now() at the latest event
  tMem,       \* per tab, useState rateLimit of its MessageInput
  tLs,        \* the shared localStorage: the value under 'message_rate_limit'
  tLast,      \* the latest handleSubmit call: tab, input, whether it called onSendMessage
  tWinFirst,  \* time of the first message sent in the current burst window, 0 if none
  tWinSent,   \* messages sent by both tabs in the current burst window
  tSubmits    \* handleSubmit calls so far

tabVars == <<tNow, tMem, tLs, tLast, tWinFirst, tWinSent, tSubmits>>

\* rate-limiter.ts over a localStorage that can fail
VARIABLES
  sNow,    \* Date.now() at the latest event
  sMode,   \* how localStorage behaves: "ok", "readonly" or "denied"
  sItems,  \* localStorage: its items in the order of localStorage.key(i)
  sCalls,  \* checkRateLimit calls so far
  sLast    \* the latest checkRateLimit call: what it found, did and returned

storeVars == <<sNow, sMode, sItems, sCalls, sLast>>

\* The channel router of the Firebase client module
VARIABLES
  rChannel,     \* the channel id resolved most recently
  rStore,       \* what getFirestoreForChannel returned for it
  rAuth,        \* what getAuthForChannel returned for it
  rIsLocation,  \* what isLocationChannel returned for it
  rCheck,       \* the latest run of the isolation check: the two instances it
                \* compared and its result
  rOp           \* the latest store operation ChatArea issued: its kind, the
                \* channel prop, the instance, the filter and the payload

routerVars == <<rChannel, rStore, rAuth, rIsLocation, rCheck, rOp>>

\* The send path: handleSubmit of MessageInput calling sendMessage of ChatArea
VARIABLES
  qNow,        \* Date.now() at the latest event
  qRateLimit,  \* useState rateLimit of MessageInput
  qLs,         \* localStorage: the value under 'message_rate_limit'
  qChannel,    \* the channel prop of ChatArea and MessageInput
  qUsers,      \* channels whose Auth instance has a currentUser
  qPending,    \* channels of the sendMessage invocations awaiting signInAnonymously
  qLast        \* the latest step: the text kind submitted ("none" if the step is no
               \* submission), whether onSendMessage was called, the channel of
               \* the addDoc call made ("none" if none), the toast shown

sendVars == <<qNow, qRateLimit, qLs, qChannel, qUsers, qPending, qLast>>

\* Reports of messages by several clients
VARIABLES
  reportCount,  \* per message, the stored report_count
  reported,     \* per message, the stored reported flag
  reporters     \* per client, its reportMessage call: the message and the position

reportVars == <<reportCount, reported, reporters>>

\* The composer of ChatArea: reply target, sends and reports of one client
VARIABLES
  cChannel,   \* the channel prop of ChatArea
  cPhase,     \* "loading" until the history of cChannel is displayed, then "live"
  cSince,     \* the live-since boundary of the open listener (a created_at value)
  cStore,     \* the message documents of the store, by id
  cWindow,    \* useState messages: the ChatMessage copies on display
  cReply,     \* useState replyToMessage (NoReply for null)
  cLoading,   \* useState isLoading
  cUser,      \* whether the Auth instance has a currentUser
  cSends,     \* the pending sendMessage invocations
  cReports,   \* the pending reportMessage invocations
  cDirty      \* documents of the listener's query modified since its last emission

chatVars == <<cChannel, cPhase, cSince, cStore, cWindow, cReply, cLoading, cUser,
              cSends, cReports, cDirty>>

\* Display names: handleUsernameSet of several clients over one RTDB
VARIABLES
  nRecords,   \* RTDB usernames/<key>: the reservation record (NoRecord for null)
  nUsername,  \* per client, useState username of Index
  nStored,    \* per client, sessionStorage 'anonymous_username'
  nOnline,    \* per client, whether its RTDB instance is online
  nUser,      \* per client, whether auth.currentUser exists
  nCalls,     \* per client, the pending handleUsernameSet invocations
  nLast       \* the toast of the latest step

nameVars == <<nRecords, nUsername, nStored, nOnline, nUser, nCalls, nLast>>

vars == <<feedVars, rlVars, gateVars, tabVars, storeVars, routerVars, sendVars,
          reportVars, chatVars, nameVars>>

\* What the operations of one component leave alone.
othersOfFeed == <<rlVars, gateVars, tabVars, storeVars, routerVars, sendVars, reportVars,
                   chatVars, nameVars>>
othersOfRL == <<feedVars, gateVars, tabVars, storeVars, routerVars, sendVars, reportVars,
                   chatVars, nameVars>>
othersOfGate == <<feedVars, rlVars, tabVars, storeVars, routerVars, sendVars, reportVars,
                   chatVars, nameVars>>
othersOfTabs == <<feedVars, rlVars, gateVars, storeVars, routerVars, sendVars, reportVars,
                   chatVars, nameVars>>
othersOfStore == <<feedVars, rlVars, gateVars, tabVars, routerVars, sendVars, reportVars,
                   chatVars, nameVars>>
othersOfRouter == <<feedVars, rlVars, gateVars, tabVars, storeVars, sendVars, reportVars,
                   chatVars, nameVars>>
othersOfSend == <<feedVars, rlVars, gateVars, tabVars, storeVars, routerVars, reportVars,
                   chatVars, nameVars>>
othersOfReport == <<feedVars, rlVars, gateVars, tabVars, storeVars, routerVars, sendVars,
                   chatVars, nameVars>>
othersOfChat == <<feedVars, rlVars, gateVars, tabVars, storeVars, routerVars, sendVars,
                  reportVars, nameVars>>
othersOfNames == <<feedVars, rlVars, gateVars, tabVars, storeVars, routerVars, sendVars,
                   reportVars, chatVars>>

\* Index.tsx:15 starts on "general"; ChannelSidebar selects any channel.
FeedChannels == {"general", "support"}
FirstChannel == "general"
NoChannel == "none"
\* The channel prop once the view is closed (ChatArea unmounted).
Closed == "closed"

NoToast == "none"

\* The error codes a failed store read carries (FirestoreError.code); "other"
\* stands for every code the handlers do not name.
ErrorCodes == {"unavailable", "deadline-exceeded", "permission-denied",
               "failed-precondition", "other"}
\* The outcome of a store read: success or one of the codes.
ReadResults == {"ok"} \cup ErrorCodes

\* ---- pure helpers of the queries ----

MaxOf(S) == CHOOSE x \in S : \A y \in S : y <= x
MinOf(S) == CHOOSE x \in S : \A y \in S : x <= y

\* orderBy("created_at", "desc"), limit(n)
RECURSIVE NewestDesc(_, _)
NewestDesc(S, n) ==
  IF S = {} \/ n = 0 THEN <<>>
  ELSE <<MaxOf(S)>> \o NewestDesc(S \ {MaxOf(S)}, n - 1)

\* orderBy("created_at", "asc")
RECURSIVE Asc(_)
Asc(S) == IF S = {} THEN <<>> ELSE <<MinOf(S)>> \o Asc(S \ {MinOf(S)})

\* A list left newest-first.
ReverseSkipped(s) == s

\* Array.prototype.reverse
Reverse(s) == [i \in 1..Len(s) |-> s[Len(s) + 1 - i]]

Range(s) == {s[i] : i \in DOMAIN s}

\* A merge that keeps every element.
FilterOutNothing(s, S) == s

\* Array.prototype.filter, keeping the order
RECURSIVE FilterOut(_, _)
FilterOut(s, S) ==
  IF s = <<>> THEN <<>>
  ELSE IF s[1] \in S THEN FilterOut(Tail(s), S)
       ELSE <<s[1]>> \o FilterOut(Tail(s), S)

\* where("channel", "==", c) over a set of document ids
DocsOf(c, S) == {i \in S : docs[i] = c}

\* historyQ: where channel == c, orderBy created_at desc, limit(25)
HistoryQuery(c, S) == NewestDesc(DocsOf(c, S), PageSize)

\* handleLoadMore's q: ... orderBy created_at desc, startAfter(oldestDoc), limit(25)
MoreQuery(c, cursor, S) == NewestDesc({i \in DocsOf(c, S) : i < cursor}, PageSize)

\* liveQ: where channel == c, orderBy created_at asc, startAfter(liveSince)
LiveQuery(c, since, S) == {i \in DocsOf(c, S) : i > since}

AllDocs == 1..Len(docs)

\* A React state setter is dropped once the component is unmounted.
SetState(new, old) == IF mounted THEN new ELSE old

\* ---- the global unsubscribe handle ----

\* A detached listener: it keeps no query and no delivery state.
Detached ==
  [channel |-> NoChannel, since |-> 0, active |-> FALSE, fired |-> FALSE, seen |-> {},
   via |-> "none"]

\* Calling the registered unsubscribe function: idempotent, the handle stays set.
Unsubscribe(ss, h) == [i \in DOMAIN ss |-> IF i = h THEN Detached ELSE ss[i]]

\* A subscribeToMessages that opens its listener without line 721.
UnsubBeforeOpenSkipped(ss, h) == ss

\* line 721: if (window.__bitswhisper_unsub) window.__bitswhisper_unsub();
UnsubBeforeOpen(ss, h) == IF h # 0 THEN Unsubscribe(ss, h) ELSE ss

\* line 839: the effect's cleanup.
UnsubOnCleanup(ss, h) == IF h # 0 THEN Unsubscribe(ss, h) ELSE ss

ActiveSubs == {i \in DOMAIN subs : subs[i].active}

\* ---- tasks ----

NewTask(kind, c, cursor, pc) ==
  [kind |-> kind, channel |-> c, pc |-> pc, haveSnap |-> FALSE, snap |-> <<>>,
   cursor |-> cursor]

Pending == {i \in DOMAIN tasks : tasks[i].pc # "done"}

\* A finished invocation: its locals are gone.
Finish(i) == [tasks EXCEPT ![i] = NewTask(tasks[i].kind, NoChannel, 0, "done")]

FeedInit ==
  /\ channel = NoChannel
  /\ mounted = FALSE
  /\ messages = <<>>
  /\ oldestDoc = 0
  /\ hasMore = TRUE
  /\ isLoading = FALSE
  /\ liveSince = 0
  /\ docs = <<>>
  /\ cache = {}
  /\ signedIn = {}
  /\ tasks = <<>>
  /\ subs = <<>>
  /\ unsubHandle = 0
  /\ toast = NoToast

(***************************************************************************)
(* Feed controller: operations.                                            *)
(***************************************************************************)

\* The channel-change effect of ChatArea: the cleanup of the previous effect,
\* the reset of the Feed Window, and subscribeToMessages up to its first await
\* (signInAnonymously when the partition has no user yet, else getDocsFromCache).
OpenChannel(c) ==
  /\ UNCHANGED othersOfFeed
  /\ toast' = NoToast
  /\ channel # Closed
  /\ IF mounted THEN c # channel ELSE c = FirstChannel
  /\ Len(tasks) < MaxTasks
  /\ subs' = IF mounted THEN UnsubOnCleanup(subs, unsubHandle) ELSE subs
  /\ channel' = c
  /\ mounted' = TRUE
  /\ messages' = <<>>
  /\ oldestDoc' = 0
  /\ hasMore' = TRUE
  /\ isLoading' = TRUE
  /\ tasks' = Append(tasks,
                NewTask("open", c, 0, IF c \in signedIn THEN "cache" ELSE "auth"))
  /\ UNCHANGED <<liveSince, docs, cache, signedIn, unsubHandle>>

\* The view closes: React runs the effect's cleanup and unmounts ChatArea.
CloseView ==
  /\ UNCHANGED othersOfFeed
  /\ toast' = NoToast
  /\ mounted
  /\ subs' = UnsubOnCleanup(subs, unsubHandle)
  /\ mounted' = FALSE
  /\ channel' = Closed
  /\ UNCHANGED <<messages, oldestDoc, hasMore, isLoading, liveSince, docs, cache,
                 signedIn, tasks, unsubHandle>>

\* The page is loaded again after the view was closed. Nothing of the old
\* page survives but the persistent local cache of the store client: the
\* component state starts from its initial values, the old invocations and
\* listeners are gone with their page, and no Auth instance has a user until
\* a sign-in resolves.
Reload ==
  /\ UNCHANGED othersOfFeed
  /\ toast' = NoToast
  /\ channel = Closed
  /\ Len(tasks) < MaxTasks
  /\ channel' = NoChannel
  /\ messages' = <<>>
  /\ oldestDoc' = 0
  /\ hasMore' = TRUE
  /\ isLoading' = FALSE
  /\ liveSince' = 0
  /\ signedIn' = {}
  /\ tasks' = [i \in DOMAIN tasks |-> NewTask(tasks[i].kind, NoChannel, 0, "done")]
  /\ subs' = <<>>
  /\ unsubHandle' = 0
  /\ UNCHANGED <<mounted, docs, cache>>

\* The best-effort signInAnonymously of the client module resolves for the
\* partition of channel c.
SignInBackground(c) ==
  /\ UNCHANGED othersOfFeed
  /\ toast' = NoToast
  /\ c \notin signedIn
  /\ signedIn' = signedIn \cup {c}
  /\ UNCHANGED <<channel, mounted, messages, oldestDoc, hasMore, isLoading, liveSince,
                 docs, cache, tasks, subs, unsubHandle>>

\* A message is created in channel c (by this or another client); the server
\* assigns the next creation timestamp.
Post(c) ==
  /\ UNCHANGED othersOfFeed
  /\ toast' = NoToast
  /\ Len(docs) < MaxDocs
  /\ docs' = Append(docs, c)
  /\ UNCHANGED <<channel, mounted, messages, oldestDoc, hasMore, isLoading, liveSince,
                 cache, signedIn, tasks, subs, unsubHandle>>

\* await signInAnonymously(channelAuth) of subscribeToMessages / handleLoadMore
\* resolves. Neither has a catch around it: a failure rejects the invocation.
AuthResolve(i, ok) ==
  /\ UNCHANGED othersOfFeed
  /\ toast' = NoToast
  /\ i \in DOMAIN tasks
  /\ tasks[i].pc = "auth"
  /\ IF ok
     THEN /\ signedIn' = signedIn \cup {tasks[i].channel}
          /\ tasks' = [tasks EXCEPT ![i].pc = "cache"]
     ELSE /\ signedIn' = signedIn
          /\ tasks' = Finish(i)
  /\ UNCHANGED <<channel, mounted, messages, oldestDoc, hasMore, isLoading, liveSince,
                 docs, cache, subs, unsubHandle>>

\* A flag that never reports the end of the history.
HasMoreAlways(snap) == TRUE

\* setOldestDoc / setHasMore after a history page `snap` (newest first).
CursorAfter(snap) == IF Len(snap) > 0 THEN snap[Len(snap)] ELSE 0
HasMoreAfter(snap) == Len(snap) = PageSize

\* await getDocsFromCache(historyQ) of subscribeToMessages resolves.
CacheResolve(i, ok) ==
  /\ UNCHANGED othersOfFeed
  /\ toast' = NoToast
  /\ i \in DOMAIN tasks
  /\ tasks[i].kind = "open"
  /\ tasks[i].pc = "cache"
  /\ LET snap == HistoryQuery(tasks[i].channel, cache) IN
     IF ok
     THEN /\ tasks' = [tasks EXCEPT ![i].pc = "server", ![i].haveSnap = TRUE,
                                    ![i].snap = snap]
          /\ IF Len(snap) > 0
             THEN /\ messages' = SetState(Reverse(snap), messages)
                  /\ oldestDoc' = SetState(CursorAfter(snap), oldestDoc)
                  /\ hasMore' = SetState(HasMoreAfter(snap), hasMore)
                  /\ isLoading' = SetState(FALSE, isLoading)
             ELSE UNCHANGED <<messages, oldestDoc, hasMore, isLoading>>
     ELSE /\ tasks' = [tasks EXCEPT ![i].pc = "server", ![i].haveSnap = FALSE,
                                    ![i].snap = <<>>]
          /\ UNCHANGED <<messages, oldestDoc, hasMore, isLoading>>
  /\ UNCHANGED <<channel, mounted, liveSince, docs, cache, signedIn, subs, unsubHandle>>

\* A listener that starts from the beginning of the channel.
BoundaryZero(snap) == 0

\* The live-since boundary computed from the history page (lines 698-717):
\* the creation time of the newest document, or "now minus one second"
\* (one tick below the newest creation time of the store) without one.
BoundaryOf(snap) ==
  IF Len(snap) > 0 THEN snap[1]
  ELSE IF Len(docs) > 0 THEN Len(docs) - 1 ELSE 0

\* A listener just opened; `via` names the history read its boundary was
\* computed from ("server", or "cache" after a failed server read).
NewSub(c, since, via) ==
  [channel |-> c, since |-> since, active |-> TRUE, fired |-> FALSE, seen |-> {},
   via |-> via]

\* Lines 695-821: fix the boundary, call the registered unsubscribe, open the
\* listener, register its unsubscribe.
GoLive(i, snap, via) ==
  /\ liveSince' = BoundaryOf(snap)
  /\ subs' = Append(UnsubBeforeOpen(subs, unsubHandle),
                    NewSub(tasks[i].channel, BoundaryOf(snap), via))
  /\ unsubHandle' = Len(subs) + 1
  /\ tasks' = Finish(i)

\* A catch that never finds a cached page.
HasCachedPageNever(t) == FALSE

\* Line 681: historySnap still holds the page of the cache read, and it is
\* not empty.
HasCachedPage(t) == t.haveSnap /\ Len(t.snap) > 0

\* Lines 684-690: what the catch of the server history read shows when no
\* cached page is on display.
ServerFailToast(code) ==
  IF code = "permission-denied" THEN "Permission denied" ELSE NoToast

\* await getDocsFromServer(historyQ) of subscribeToMessages resolves with the
\* result r; the rest of the function runs without a further await.
ServerResolve(i, r) ==
  /\ UNCHANGED othersOfFeed
  /\ i \in DOMAIN tasks
  /\ tasks[i].kind = "open"
  /\ tasks[i].pc = "server"
  /\ LET snap == HistoryQuery(tasks[i].channel, AllDocs) IN
     IF r = "ok"
     THEN /\ messages' = SetState(Reverse(snap), messages)
          /\ oldestDoc' = SetState(CursorAfter(snap), oldestDoc)
          /\ hasMore' = SetState(HasMoreAfter(snap), hasMore)
          /\ cache' = cache \cup Range(snap)
          /\ GoLive(i, snap, "server")
          /\ toast' = NoToast
          /\ UNCHANGED isLoading
     ELSE IF ~HasCachedPage(tasks[i])
          THEN /\ isLoading' = SetState(FALSE, isLoading)
               /\ toast' = ServerFailToast(r)
               /\ tasks' = Finish(i)
               /\ UNCHANGED <<messages, oldestDoc, hasMore, cache, liveSince, subs,
                              unsubHandle>>
          ELSE /\ GoLive(i, tasks[i].snap, "cache")
               /\ toast' = NoToast
               /\ UNCHANGED <<messages, oldestDoc, hasMore, cache, isLoading>>
  /\ UNCHANGED <<channel, mounted, docs, signedIn>>

\* Lines 770-817: what the listener's error callback shows for an error code.
ListenerToast(code) ==
  IF code = "failed-precondition" THEN "Index Required"
  ELSE IF code = "permission-denied" THEN "Permission denied"
  ELSE NoToast

\* The listener's error callback (lines 767-819). The store ends a listener
\* that failed: it delivers nothing afterwards.
ListenerError(s, code) ==
  /\ UNCHANGED othersOfFeed
  /\ s \in DOMAIN subs
  /\ subs[s].active
  /\ toast' = ListenerToast(code)
  /\ isLoading' = SetState(FALSE, isLoading)
  /\ subs' = Unsubscribe(subs, s)
  /\ UNCHANGED <<channel, mounted, messages, oldestDoc, hasMore, liveSince, docs, cache,
                 signedIn, tasks, unsubHandle>>

\* The listener's snapshot callback (lines 735-766): its first emission, or
\* an emission with newly added documents.
Deliver(s) ==
  /\ UNCHANGED othersOfFeed
  /\ toast' = NoToast
  /\ s \in DOMAIN subs
  /\ subs[s].active
  /\ LET new == LiveQuery(subs[s].channel, subs[s].since, AllDocs) \ subs[s].seen
         uniqueNew == FilterOut(Asc(new), Range(messages))
     IN /\ ~subs[s].fired \/ new # {}
        /\ messages' = SetState(messages \o uniqueNew, messages)
        /\ subs' = [subs EXCEPT ![s].fired = TRUE, ![s].seen = subs[s].seen \cup new]
        /\ cache' = cache \cup new
  /\ isLoading' = SetState(FALSE, isLoading)
  /\ UNCHANGED <<channel, mounted, oldestDoc, hasMore, liveSince, docs, signedIn, tasks,
                 unsubHandle>>

\* handleLoadMore up to its first await. The button is rendered when more is
\* available and the window is not empty, and is disabled while loading.
handleLoadMore ==
  /\ UNCHANGED othersOfFeed
  /\ toast' = NoToast
  /\ mounted
  /\ ~isLoading
  /\ hasMore
  /\ Len(messages) > 0
  /\ oldestDoc # 0
  /\ Len(tasks) < MaxTasks
  /\ isLoading' = TRUE
  /\ tasks' = Append(tasks,
                NewTask("more", channel, oldestDoc,
                        IF channel \in signedIn THEN "cache" ELSE "auth"))
  /\ UNCHANGED <<channel, mounted, messages, oldestDoc, hasMore, liveSince, docs, cache,
                 signedIn, subs, unsubHandle>>

\* Lines 485-527 and 537: prepend the page, move the cursor, clear loading.
ApplyMore(i, snap) ==
  /\ messages' = SetState(FilterOut(Reverse(snap), Range(messages)) \o messages, messages)
  /\ oldestDoc' = SetState(IF Len(snap) > 0 THEN CursorAfter(snap) ELSE oldestDoc,
                           oldestDoc)
  /\ hasMore' = SetState(IF Len(snap) > 0 THEN HasMoreAfter(snap) ELSE FALSE, hasMore)
  /\ isLoading' = SetState(FALSE, isLoading)
  /\ tasks' = Finish(i)

\* await getDocsFromCache(q) of handleLoadMore resolves.
MoreCacheResolve(i, ok) ==
  /\ UNCHANGED othersOfFeed
  /\ toast' = NoToast
  /\ i \in DOMAIN tasks
  /\ tasks[i].kind = "more"
  /\ tasks[i].pc = "cache"
  /\ LET snap == MoreQuery(tasks[i].channel, tasks[i].cursor, cache) IN
     IF ok /\ Len(snap) > 0
     THEN ApplyMore(i, snap)
     ELSE /\ tasks' = [tasks EXCEPT ![i].pc = "server"]
          /\ UNCHANGED <<messages, oldestDoc, hasMore, isLoading>>
  /\ UNCHANGED <<channel, mounted, liveSince, docs, cache, signedIn, subs, unsubHandle>>

\* await getDocsFromServer(q) of handleLoadMore resolves; a failure goes to
\* the catch of lines 528-536.
MoreServerResolve(i, ok) ==
  /\ UNCHANGED othersOfFeed
  /\ i \in DOMAIN tasks
  /\ tasks[i].kind = "more"
  /\ tasks[i].pc = "server"
  /\ LET snap == MoreQuery(tasks[i].channel, tasks[i].cursor, AllDocs) IN
     IF ok
     THEN /\ ApplyMore(i, snap)
          /\ cache' = cache \cup Range(snap)
          /\ toast' = NoToast
     ELSE /\ toast' = "Could not load more messages"
          /\ hasMore' = SetState(FALSE, hasMore)
          /\ isLoading' = SetState(FALSE, isLoading)
          /\ tasks' = Finish(i)
          /\ UNCHANGED <<messages, oldestDoc, cache>>
  /\ UNCHANGED <<channel, mounted, liveSince, docs, signedIn, subs, unsubHandle>>

FeedNext ==
  \/ \E c \in FeedChannels : OpenChannel(c)
  \/ CloseView
  \/ Reload
  \/ \E c \in FeedChannels : SignInBackground(c)
  \/ \E c \in FeedChannels : Post(c)
  \/ \E i \in 1..MaxTasks, ok \in BOOLEAN : AuthResolve(i, ok)
  \/ \E i \in 1..MaxTasks, ok \in BOOLEAN : CacheResolve(i, ok)
  \/ \E i \in 1..MaxTasks, r \in ReadResults : ServerResolve(i, r)
  \/ \E s \in 1..MaxTasks : Deliver(s)
  \/ \E s \in 1..MaxTasks, code \in ErrorCodes : ListenerError(s, code)
  \/ handleLoadMore
  \/ \E i \in 1..MaxTasks, ok \in BOOLEAN : MoreCacheResolve(i, ok)
  \/ \E i \in 1..MaxTasks, ok \in BOOLEAN : MoreServerResolve(i, ok)

(***************************************************************************)
(* rate-limiter.ts: checkRateLimit over localStorage.                      *)
(***************************************************************************)
\* DEFAULT_OPTIONS
maxRequests == 1
windowMs == 30000
burstLimit == 3
burstWindowMs == 120000

\* Calls of checkRateLimit in one behaviour.
MaxCalls == 5

\* Date.now() at page load: any value far above the windows.
Epoch == 10 * burstWindowMs

\* Time that passes before a call.
RLDelays == {0, 10000, 40000, 310000}

RLSession == "anon123"
RLChannels == {"general", "support"}

\* `${STORAGE_PREFIX}${sessionId}:${channel}`: one key per (session, channel).
getStorageKey(sessionId, ch) == <<sessionId, ch>>

RLKeys == {getStorageKey(RLSession, c) : c \in RLChannels}

NoEntry == [present |-> FALSE, count |-> 0, timestamp |-> 0]

\* localStorage.getItem + JSON.parse: present is FALSE for null.
getStoredData(store, key) == store[key]

\* localStorage.setItem(key, JSON.stringify(data))
setStoredData(store, key, data) ==
  [store EXCEPT ![key] = [present |-> TRUE, count |-> data.count,
                          timestamp |-> data.timestamp]]

\* Lines 124-137, no entry: the entry written and the result returned.
FirstRequest(now) ==
  [allowed |-> TRUE, remaining |-> maxRequests - 1, resetTime |-> now + windowMs,
   write |-> TRUE, count |-> 1, timestamp |-> now]

\* A reset that counts on from the burst limit.
WindowResetBurst(now) ==
  [allowed |-> TRUE, remaining |-> burstLimit - 1, resetTime |-> now + burstWindowMs,
   write |-> TRUE, count |-> 1, timestamp |-> now]

\* Lines 142-155, the window has passed: the entry written and the result
\* returned.
WindowReset(now) ==
  [allowed |-> TRUE, remaining |-> maxRequests - 1, resetTime |-> now + windowMs,
   write |-> TRUE, count |-> 1, timestamp |-> now]

\* The decision of checkRateLimit for the stored `entry` at time `now`:
\* the returned result and the entry it writes (write = FALSE: no write).
Decide(entry, now, bl, bw) ==
  IF ~entry.present
  THEN FirstRequest(now)
  ELSE IF now - entry.timestamp > windowMs
  THEN WindowReset(now)
  ELSE IF bl # 0 /\ bw # 0
  THEN IF entry.count < bl
       THEN [allowed |-> TRUE, remaining |-> bl - (entry.count + 1),
             resetTime |-> entry.timestamp + bw,
             write |-> TRUE, count |-> entry.count + 1, timestamp |-> entry.timestamp]
       ELSE [allowed |-> FALSE, remaining |-> 0, resetTime |-> entry.timestamp + bw,
             write |-> FALSE, count |-> entry.count, timestamp |-> entry.timestamp]
  ELSE IF entry.count < maxRequests
       THEN [allowed |-> TRUE, remaining |-> maxRequests - (entry.count + 1),
             resetTime |-> entry.timestamp + windowMs,
             write |-> TRUE, count |-> entry.count + 1, timestamp |-> entry.timestamp]
       ELSE [allowed |-> FALSE, remaining |-> 0,
             resetTime |-> entry.timestamp + windowMs,
             write |-> FALSE, count |-> entry.count, timestamp |-> entry.timestamp]

\* checkRateLimit(sessionId, channel) with the default options, d ms after
\* the previous call.
checkRateLimit(ch, d) ==
  /\ UNCHANGED othersOfRL
  /\ Len(rlLog["general"]) + Len(rlLog["support"]) < MaxCalls
  /\ rlNow' = rlNow + d
  /\ LET key == getStorageKey(RLSession, ch)
         r == Decide(getStoredData(rlStore, key), rlNow', burstLimit, burstWindowMs)
     IN /\ rlStore' = IF r.write THEN setStoredData(rlStore, key, r) ELSE rlStore
        /\ rlLog' = [rlLog EXCEPT ![ch] = Append(@,
                       [t |-> rlNow', allowed |-> r.allowed, remaining |-> r.remaining,
                        resetTime |-> r.resetTime])]

\* The module's load-time cleanup (lines 11-33): a page load removes the
\* entries older than five minutes.
RLModuleLoad ==
  /\ UNCHANGED othersOfRL
  /\ rlStore' = [k \in RLKeys |->
                   IF rlStore[k].present /\ rlStore[k].timestamp # 0
                      /\ rlNow - rlStore[k].timestamp > 5 * 60 * 1000
                   THEN NoEntry ELSE rlStore[k]]
  /\ UNCHANGED <<rlNow, rlLog>>

RLInit ==
  /\ rlNow = Epoch
  /\ rlStore = [k \in RLKeys |-> NoEntry]
  /\ rlLog = [c \in RLChannels |-> <<>>]

RLNext ==
  \/ \E c \in RLChannels, d \in RLDelays : checkRateLimit(c, d)
  \/ RLModuleLoad

(***************************************************************************)
(* MessageInput: the rate-limit state and the send gate of handleSubmit.   *)
(***************************************************************************)
MAX_SUBMISSIONS == 3
COOLDOWN_PERIOD == 30000
BURST_WINDOW == 120000

\* Time, in ms after the page load, up to which events are explored.
MaxElapsed == 140000

\* Time that passes before an event.
GateDelays == {0, 20000, 40000, 100000}

GateChannels == {"general", "support"}

\* What validateMessage and trim() make of the typed text.
TextKinds == {"blank", "invalid", "valid"}

ZeroLimit == [lastSubmitTime |-> 0, submissionCount |-> 0, cooldownUntil |-> 0]

LsAbsent == [present |-> FALSE, data |-> ZeroLimit]

\* getRateLimitFromStorage at time `now`; ls.present is FALSE for a missing item.
getRateLimitFromStorage(ls, now) ==
  IF ls.present
  THEN IF ls.data.cooldownUntil # 0 /\ now >= ls.data.cooldownUntil
       THEN ZeroLimit
       ELSE IF ls.data.lastSubmitTime # 0 /\ now - ls.data.lastSubmitTime > BURST_WINDOW
       THEN [lastSubmitTime |-> 0, submissionCount |-> 0,
             cooldownUntil |-> ls.data.cooldownUntil]
       ELSE ls.data
  ELSE ZeroLimit

\* saveRateLimitToStorage
saveRateLimitToStorage(state) == [present |-> TRUE, data |-> state]

\* The effect's checkRateLimit (lines 81-95): `stored` was read by
\* getRateLimitFromStorage, `now` is the effect's own Date.now().
SyncCheck(stored, now, mem, ls) ==
  IF stored.cooldownUntil # 0 /\ now >= stored.cooldownUntil
  THEN [mem |-> ZeroLimit, ls |-> saveRateLimitToStorage(ZeroLimit)]
  ELSE IF stored.lastSubmitTime # 0 /\ now - stored.lastSubmitTime > BURST_WINDOW
          /\ stored.submissionCount > 0
  THEN LET updated == [stored EXCEPT !.submissionCount = 0, !.lastSubmitTime = 0]
       IN [mem |-> updated, ls |-> saveRateLimitToStorage(updated)]
  ELSE [mem |-> mem, ls |-> ls]

\* A gate whose cooldown check never rejects.
isInCooldownNever(rl, now) == FALSE

\* isInCooldown
isInCooldown(rl, now) == now < rl.cooldownUntil

\* handleSubmit, lines 146-157: the new rate-limit state of an accepted submission.
UpdateRateLimit(rl, now) ==
  LET cnt == IF now - rl.lastSubmitTime > BURST_WINDOW THEN 1
             ELSE rl.submissionCount + 1
  IN IF cnt > MAX_SUBMISSIONS
     THEN [lastSubmitTime |-> now, submissionCount |-> 0,
           cooldownUntil |-> now + COOLDOWN_PERIOD]
     ELSE [lastSubmitTime |-> now, submissionCount |-> cnt,
           cooldownUntil |-> rl.cooldownUntil]

\* A gate that lets every non-blank text through.
SendsUnfiltered(kind, rl, now) == kind # "blank"

\* Whether handleSubmit reaches onSendMessage for a text of this kind.
Sends(kind, rl, now) == kind = "valid" /\ ~isInCooldown(rl, now)

NoCooldown == [until |-> 0, channel |-> "none", rejected |-> FALSE, resumed |-> FALSE]

\* The observation of cooldowns after a submission at `now`: `new` is the
\* rate-limit state it leaves, `sent` whether it called onSendMessage.
CooldownAfter(obs, kind, now, sent, old, new) ==
  IF new.cooldownUntil # old.cooldownUntil /\ new.cooldownUntil > now
  THEN [until |-> new.cooldownUntil, channel |-> gChannel, rejected |-> FALSE,
        resumed |-> FALSE]
  ELSE IF obs.until = 0 THEN obs
  ELSE IF sent THEN [obs EXCEPT !.resumed = TRUE]
  ELSE IF kind # "blank" /\ now < obs.until
  THEN [obs EXCEPT !.rejected = TRUE]
  ELSE obs

\* The first sent submission of the burst window the submission at `now`
\* belongs to: a window lasts BURST_WINDOW from its first submission and ends
\* when a cooldown is imposed.
WinFirstAfter(first, now, sent, old, new) ==
  IF new.cooldownUntil # old.cooldownUntil /\ new.cooldownUntil > now THEN 0
  ELSE IF ~sent THEN first
  ELSE IF first = 0 \/ now - first > BURST_WINDOW THEN now
  ELSE first

\* handleSubmit for a text of the given kind, d ms after the previous event.
handleSubmit(kind, d) ==
  /\ UNCHANGED othersOfGate
  /\ gNow + d <= Epoch + MaxElapsed
  /\ gNow' = gNow + d
  /\ LET now == gNow + d
         sent == Sends(kind, rateLimit, now)
         new == IF sent THEN UpdateRateLimit(rateLimit, now) ELSE rateLimit
     IN /\ rateLimit' = new
        /\ lsGate' = IF sent THEN saveRateLimitToStorage(new) ELSE lsGate
        /\ gLast' = [kind |-> kind, channel |-> gChannel, sent |-> sent]
        /\ gCooldown' = CooldownAfter(gCooldown, kind, now, sent, rateLimit, new)
        /\ gWinFirst' = WinFirstAfter(gWinFirst, now, sent, rateLimit, new)
  /\ UNCHANGED gChannel

\* The interval of the sync effect fires; its own Date.now() reads e ms after
\* the one of getRateLimitFromStorage.
GateSyncEffect(e) ==
  /\ UNCHANGED othersOfGate
  /\ gNow + e <= Epoch + MaxElapsed
  /\ gNow' = gNow + e
  /\ LET r == SyncCheck(getRateLimitFromStorage(lsGate, gNow), gNow + e,
                        rateLimit, lsGate)
     IN /\ rateLimit' = r.mem
        /\ lsGate' = r.ls
  /\ UNCHANGED <<gChannel, gLast, gCooldown, gWinFirst>>

\* The page is reloaded: useState's initializer reads the storage, then the
\* effect runs its immediate check.
GateReload ==
  /\ UNCHANGED othersOfGate
  /\ LET m0 == getRateLimitFromStorage(lsGate, gNow)
         r == SyncCheck(getRateLimitFromStorage(lsGate, gNow), gNow, m0, lsGate)
     IN /\ rateLimit' = r.mem
        /\ lsGate' = r.ls
  /\ UNCHANGED <<gNow, gChannel, gLast, gCooldown, gWinFirst>>

\* ChannelSidebar selects another channel: MessageInput stays mounted and
\* gets the new channel prop.
GateSwitchChannel(c) ==
  /\ UNCHANGED othersOfGate
  /\ c # gChannel
  /\ gChannel' = c
  /\ UNCHANGED <<gNow, rateLimit, lsGate, gLast, gCooldown, gWinFirst>>

GateInit ==
  /\ gNow = Epoch
  /\ rateLimit = ZeroLimit
  /\ lsGate = LsAbsent
  /\ gChannel = "general"
  /\ gLast = [kind |-> "none", channel |-> "none", sent |-> FALSE]
  /\ gCooldown = NoCooldown
  /\ gWinFirst = 0

GateNext ==
  \/ \E k \in TextKinds, d \in GateDelays : handleSubmit(k, d)
  \/ \E e \in GateDelays : GateSyncEffect(e)
  \/ GateReload
  \/ \E c \in GateChannels : GateSwitchChannel(c)

(***************************************************************************)
(* MessageInput in two tabs that share localStorage.                       *)
(***************************************************************************)

Tabs == {1, 2}

\* handleSubmit calls in one behaviour.
MaxTabSubmits == 5

\* Time, in ms after the page loads, up to which events are explored.
MaxTabElapsed == 140000

\* Time that passes before an event.
TabDelays == {0, 40000, 100000}

\* The burst window the message sent at `now` belongs to: a window lasts
\* BURST_WINDOW from its first message.
TabWinFirstAfter(first, now, sent) ==
  IF ~sent THEN first
  ELSE IF first = 0 \/ now - first > BURST_WINDOW THEN now
  ELSE first

TabWinSentAfter(first, n, now, sent) ==
  IF ~sent THEN n
  ELSE IF first = 0 \/ now - first > BURST_WINDOW THEN 1
  ELSE n + 1

\* handleSubmit in tab i for a text of the given kind, d ms after the previous
\* event: it decides on the tab's own useState value and writes the result.
TabSubmit(i, kind, d) ==
  /\ UNCHANGED othersOfTabs
  /\ tSubmits < MaxTabSubmits
  /\ tNow + d <= Epoch + MaxTabElapsed
  /\ tNow' = tNow + d
  /\ tSubmits' = tSubmits + 1
  /\ LET now == tNow + d
         sent == Sends(kind, tMem[i], now)
         new == IF sent THEN UpdateRateLimit(tMem[i], now) ELSE tMem[i]
     IN /\ tMem' = [tMem EXCEPT ![i] = new]
        /\ tLs' = IF sent THEN saveRateLimitToStorage(new) ELSE tLs
        /\ tLast' = [tab |-> i, kind |-> kind, sent |-> sent]
        /\ tWinFirst' = TabWinFirstAfter(tWinFirst, now, sent)
        /\ tWinSent' = TabWinSentAfter(tWinFirst, tWinSent, now, sent)

\* The interval of tab i's sync effect fires, d ms after the previous event.
TabSyncEffect(i, d) ==
  /\ UNCHANGED othersOfTabs
  /\ tNow + d <= Epoch + MaxTabElapsed
  /\ tNow' = tNow + d
  /\ LET r == SyncCheck(getRateLimitFromStorage(tLs, tNow + d), tNow + d,
                        tMem[i], tLs)
     IN /\ tMem' = [tMem EXCEPT ![i] = r.mem]
        /\ tLs' = r.ls
  /\ UNCHANGED <<tLast, tWinFirst, tWinSent, tSubmits>>

\* Tab i is reloaded: useState's initializer reads the shared storage, then
\* the effect runs its immediate check.
TabReload(i) ==
  /\ UNCHANGED othersOfTabs
  /\ LET m0 == getRateLimitFromStorage(tLs, tNow)
         r == SyncCheck(getRateLimitFromStorage(tLs, tNow), tNow, m0, tLs)
     IN /\ tMem' = [tMem EXCEPT ![i] = r.mem]
        /\ tLs' = r.ls
  /\ UNCHANGED <<tNow, tLast, tWinFirst, tWinSent, tSubmits>>

TabsInit ==
  /\ tNow = Epoch
  /\ tMem = [i \in Tabs |-> ZeroLimit]
  /\ tLs = LsAbsent
  /\ tLast = [tab |-> 0, kind |-> "none", sent |-> FALSE]
  /\ tWinFirst = 0
  /\ tWinSent = 0
  /\ tSubmits = 0

TabsNext ==
  \/ \E i \in Tabs, k \in TextKinds, d \in TabDelays : TabSubmit(i, k, d)
  \/ \E i \in Tabs, d \in TabDelays : TabSyncEffect(i, d)
  \/ \E i \in Tabs : TabReload(i)

(***************************************************************************)
(* rate-limiter.ts: checkRateLimit over a localStorage that can fail.      *)
(***************************************************************************)

\* Items localStorage holds before setItem throws QuotaExceededError.
Capacity == 3

\* checkRateLimit calls in one behaviour.
MaxStoreCalls == 3

\* Time, in ms after the page load, up to which events are explored.
MaxStoreElapsed == 400000

\* Time that passes before a call.
StoreDelays == {0, 310000}

\* "ok": items are read and written, up to the quota; "readonly": every
\* setItem throws (a quota of zero); "denied": every access to localStorage
\* throws (SecurityError).
StoreModes == {"ok", "readonly", "denied"}

\* The key of the call, the keys of other (session, channel) pairs, and a key
\* without STORAGE_PREFIX.
TargetKey == getStorageKey(RLSession, "general")
OtherKey == getStorageKey(RLSession, "support")
ForeignKey == <<"message_rate_limit">>
StoreKeys == {TargetKey, OtherKey, ForeignKey}

\* key.startsWith(STORAGE_PREFIX)
HasPrefix(key) == key # ForeignKey

\* Retention horizon of the eviction, 5 * 60 * 1000.
RetentionMs == 5 * 60 * 1000

IndexOfKey(items, key) ==
  IF \E i \in DOMAIN items : items[i].key = key
  THEN CHOOSE i \in DOMAIN items : items[i].key = key
  ELSE 0

RemoveAt(items, i) == [j \in 1..(Len(items) - 1) |-> IF j < i THEN items[j] ELSE items[j + 1]]

\* getStoredData (lines 40-53): null when the item is missing, when getItem
\* throws and when JSON.parse throws.
getStoredDataFrom(items, mode, key) ==
  LET i == IndexOfKey(items, key) IN
  IF mode = "denied" \/ i = 0 \/ ~items[i].parses THEN NoEntry
  ELSE [present |-> TRUE, count |-> items[i].count, timestamp |-> items[i].timestamp]

\* What getStoredData met under the key.
FoundUnder(items, mode, key) ==
  LET i == IndexOfKey(items, key) IN
  IF mode = "denied" THEN "unreadable"
  ELSE IF i = 0 THEN "absent"
  ELSE IF ~items[i].parses THEN "corrupt"
  ELSE "entry"

\* Whether localStorage.setItem(key, ...) throws.
SetItemThrows(items, mode, key) ==
  \/ mode # "ok"
  \/ IndexOfKey(items, key) = 0 /\ Len(items) >= Capacity

\* localStorage.setItem that succeeds: an existing item keeps its place.
SetItem(items, key, data) ==
  LET i == IndexOfKey(items, key)
      it == [key |-> key, parses |-> TRUE, count |-> data.count,
             timestamp |-> data.timestamp]
  IN IF i = 0 THEN Append(items, it) ELSE [items EXCEPT ![i] = it]

\* Lines 67-73: the item is removed when it is older than five minutes or
\* when reading its timestamp throws.
Evicts(it, now) ==
  /\ HasPrefix(it.key)
  /\ \/ ~it.parses
     \/ it.timestamp # 0 /\ now - it.timestamp > RetentionMs

\* The loop of lines 63-75 from index i on: removeItem shifts the later items
\* down while i moves on.
RECURSIVE EvictLoop(_, _, _)
EvictLoop(items, i, now) ==
  IF i > Len(items) THEN items
  ELSE IF Evicts(items[i], now) THEN EvictLoop(RemoveAt(items, i), i + 1, now)
  ELSE EvictLoop(items, i + 1, now)

\* setStoredData (lines 55-84): the items it leaves, the setItem attempts it
\* made, whether the data was stored, and whether it threw.
setStoredDataTo(items, mode, key, data, now) ==
  IF ~SetItemThrows(items, mode, key)
  THEN [items |-> SetItem(items, key, data), attempts |-> 1, stored |-> TRUE,
        threw |-> FALSE]
  ELSE IF mode = "denied"
  THEN [items |-> items, attempts |-> 1, stored |-> FALSE, threw |-> TRUE]
  ELSE LET kept == EvictLoop(items, 1, now) IN
       IF ~SetItemThrows(kept, mode, key)
       THEN [items |-> SetItem(kept, key, data), attempts |-> 2, stored |-> TRUE,
             threw |-> FALSE]
       ELSE [items |-> kept, attempts |-> 2, stored |-> FALSE, threw |-> FALSE]

NoStoreCall ==
  [outcome |-> "none", found |-> "none", first |-> FALSE, attempts |-> 0,
   stored |-> FALSE, evicted |-> {}]

\* checkRateLimit(RLSession, "general") with the default options, d ms after
\* the previous event.
StoreCall(d) ==
  /\ UNCHANGED othersOfStore
  /\ sCalls < MaxStoreCalls
  /\ sNow + d <= Epoch + MaxStoreElapsed
  /\ sNow' = sNow + d
  /\ sCalls' = sCalls + 1
  /\ LET now == sNow + d
         r == Decide(getStoredDataFrom(sItems, sMode, TargetKey), now,
                     burstLimit, burstWindowMs)
         w == IF r.write THEN setStoredDataTo(sItems, sMode, TargetKey, r, now)
              ELSE [items |-> sItems, attempts |-> 0, stored |-> FALSE,
                    threw |-> FALSE]
     IN /\ sItems' = w.items
        /\ sLast' = [outcome |-> IF w.threw THEN "threw"
                                 ELSE IF r.allowed THEN "allowed" ELSE "denied",
                     found |-> FoundUnder(sItems, sMode, TargetKey),
                     first |-> ~w.threw /\ r.allowed /\ r.remaining = maxRequests - 1
                               /\ r.resetTime = now + windowMs,
                     attempts |-> w.attempts,
                     stored |-> w.stored,
                     evicted |-> {sItems[i] : i \in DOMAIN sItems} \
                                 {x \in {sItems[i] : i \in DOMAIN sItems} :
                                    \E j \in DOMAIN w.items : w.items[j].key = x.key}]
  /\ UNCHANGED sMode

\* Another writer puts an item under a key that holds none: an entry of
\* another (session, channel) pair written `age` ms ago, an item that does
\* not parse, or the item of another component.
StoreOtherWrite(key, parses, age) ==
  /\ UNCHANGED othersOfStore
  /\ sMode = "ok"
  /\ IndexOfKey(sItems, key) = 0
  /\ Len(sItems) < Capacity
  /\ sItems' = Append(sItems, [key |-> key, parses |-> parses,
                                count |-> IF parses THEN 1 ELSE 0,
                                timestamp |-> IF parses THEN sNow - age ELSE 0])
  /\ UNCHANGED <<sNow, sMode, sCalls, sLast>>

\* The browser's storage starts to behave in mode m.
StoreSetMode(m) ==
  /\ UNCHANGED othersOfStore
  /\ m # sMode
  /\ sMode' = m
  /\ UNCHANGED <<sNow, sItems, sCalls, sLast>>

StoreInit ==
  /\ sNow = Epoch
  /\ sMode = "ok"
  /\ sItems = <<>>
  /\ sCalls = 0
  /\ sLast = NoStoreCall

StoreNext ==
  \/ \E d \in StoreDelays : StoreCall(d)
  \/ \E k \in StoreKeys, p \in BOOLEAN, a \in {0, 2 * RetentionMs} :
        StoreOtherWrite(k, p, a)
  \/ \E m \in StoreModes : StoreSetMode(m)

(***************************************************************************)
(* The channel router: getFirestoreForChannel, getAuthForChannel,          *)
(* isLocationChannel, verifySupportChannelIsolation.                       *)
(***************************************************************************)

\* Channel ids handed to the router: the reserved ones, location channels,
\* and ids that differ from a reserved one by case or by being empty.
ChannelIds ==
  {"general", "support", "confessions", "food", "lecture", "campus",
   "General", "SUPPORT", "Confessions", ""}

\* The Firestore instances of the module (lines 66-91), by their names.
db == "db"
locationDb == "locationDb"
supportDb == "supportDb"
generalDb == "generalDb"
Stores == {db, locationDb, supportDb, generalDb}

\* The Auth instances of the module (lines 137-151), by their names.
auth == "auth"
locationAuth == "locationAuth"
supportAuth == "supportAuth"
generalAuth == "generalAuth"

\* The FirebaseApp an instance was initialized on (lines 53-91, 137-151).
AppOf(h) ==
  CASE h \in {db, auth} -> "app"
    [] h \in {locationDb, locationAuth} -> "locationApp"
    [] h \in {supportDb, supportAuth} -> "supportApp"
    [] h \in {generalDb, generalAuth} -> "generalApp"

\* projectId of the config an app was initialized with (lines 8-62).
ProjectOf(a) ==
  CASE a = "app" -> "productioncloak-c935a"
    [] a = "locationApp" -> "location-channels"
    [] a = "supportApp" -> "bits-cloak"
    [] a = "generalApp" -> "general-channel"

nonLocationChannels == {"general", "confessions", "support"}

\* A router without the branch for "support".
getFirestoreForChannelNoSupport(channelId) ==
  IF channelId = "general" THEN generalDb
  ELSE IF channelId \notin nonLocationChannels THEN locationDb
  ELSE db

getFirestoreForChannel(channelId) ==
  IF channelId = "general" THEN generalDb
  ELSE IF channelId = "support" THEN supportDb
  ELSE IF channelId \notin nonLocationChannels THEN locationDb
  ELSE db

\* A router that hands out the main identity handle for every channel.
getAuthForChannelMain(channelId) == auth

getAuthForChannel(channelId) ==
  IF channelId = "general" THEN generalAuth
  ELSE IF channelId = "support" THEN supportAuth
  ELSE IF channelId \notin nonLocationChannels THEN locationAuth
  ELSE auth

isLocationChannel(channelId) == channelId \notin nonLocationChannels

\* A check that compares nothing.
IsIsolatedAlways(supportDbInstance, confessionsDbInstance) == TRUE

\* Lines 193-204 of verifySupportChannelIsolation, for the two instances the
\* router returned for "support" and "confessions".
IsIsolated(supportDbInstance, confessionsDbInstance) ==
  /\ supportDbInstance = supportDb
  /\ confessionsDbInstance = db
  /\ ProjectOf("supportApp") = "bits-cloak"
  /\ ProjectOf("app") = "productioncloak-c935a"
  /\ supportDbInstance # confessionsDbInstance

verifySupportChannelIsolation ==
  IsIsolated(getFirestoreForChannel("support"), getFirestoreForChannel("confessions"))

\* A caller resolves channel id c with the three router functions.
Resolve(c) ==
  /\ UNCHANGED othersOfRouter
  /\ rChannel' = c
  /\ rStore' = getFirestoreForChannel(c)
  /\ rAuth' = getAuthForChannel(c)
  /\ rIsLocation' = isLocationChannel(c)
  /\ UNCHANGED <<rCheck, rOp>>

\* The channel-change effect runs verifySupportChannelIsolation.
RunIsolationCheck ==
  /\ UNCHANGED othersOfRouter
  /\ rCheck' = [support |-> getFirestoreForChannel("support"),
                confessions |-> getFirestoreForChannel("confessions"),
                result |-> verifySupportChannelIsolation]
  /\ UNCHANGED <<rChannel, rStore, rAuth, rIsLocation, rOp>>

\* The comparison of the check applied to a routing that returns instance s
\* for "support" and instance c for "confessions".
RunIsolationCheckOn(s, c) ==
  /\ UNCHANGED othersOfRouter
  /\ rCheck' = [support |-> s, confessions |-> c, result |-> IsIsolated(s, c)]
  /\ UNCHANGED <<rChannel, rStore, rAuth, rIsLocation, rOp>>

\* The store operations of ChatArea: the history reads and the live listener
\* of subscribeToMessages, the page read of handleLoadMore, addDoc of
\* sendMessage, updateDoc of reportMessage.
OpKinds == {"history", "loadMore", "live", "send", "report"}

\* An operation that goes to the main store whatever the channel.
OpStoreMain(kind, c) == db

\* const channelDb = getFirestoreForChannel(channel), lines 464, 590, 855, 944
OpStore(kind, c) == getFirestoreForChannel(c)

\* where("channel", "==", channel) of the three queries; reportMessage
\* addresses one document by id.
OpFilter(kind, c) == IF kind \in {"history", "loadMore", "live"} THEN c ELSE "none"

\* messageData.channel of sendMessage, line 886
OpPayloadChannel(kind, c) == IF kind = "send" THEN c ELSE "none"

\* ChatArea, rendered for channel c, issues a store operation.
StoreOp(kind, c) ==
  /\ UNCHANGED othersOfRouter
  /\ rOp' = [kind |-> kind, channel |-> c, store |-> OpStore(kind, c),
             filter |-> OpFilter(kind, c), payload |-> OpPayloadChannel(kind, c)]
  /\ UNCHANGED <<rChannel, rStore, rAuth, rIsLocation, rCheck>>

RouterInit ==
  /\ rChannel = "general"
  /\ rStore = getFirestoreForChannel("general")
  /\ rAuth = getAuthForChannel("general")
  /\ rIsLocation = isLocationChannel("general")
  /\ rCheck = [support |-> "none", confessions |-> "none", result |-> FALSE]
  /\ rOp = [kind |-> "none", channel |-> "none", store |-> "none",
            filter |-> "none", payload |-> "none"]

RouterNext ==
  \/ \E c \in ChannelIds : Resolve(c)
  \/ RunIsolationCheck
  \/ \E s \in Stores, c \in Stores : RunIsolationCheckOn(s, c)
  \/ \E k \in OpKinds, c \in ChannelIds : StoreOp(k, c)

(***************************************************************************)
(* The send path: handleSubmit, then sendMessage up to its addDoc call.    *)
(***************************************************************************)

\* Time, in ms after the page load, up to which submissions are explored.
MaxSendElapsed == 160000

\* sendMessage invocations that may await the sign-in at once.
MaxPendingSends == 1

\* Time that passes before an event.
SendDelays == {0, 40000}

SendChannels == {"general", "support"}

NoAddDoc == "none"

\* The toast of handleSubmit (lines 122-144) for a text of this kind.
SubmitToast(kind, rl, now) ==
  IF kind = "blank" THEN NoToast
  ELSE IF isInCooldown(rl, now) THEN "Rate limit exceeded"
  ELSE IF kind = "invalid" THEN "Message rejected"
  ELSE NoToast

\* handleSubmit for a text of the given kind, d ms after the previous event,
\* and, when it calls onSendMessage, sendMessage up to its first await: the
\* addDoc call if the partition has a user, else signInAnonymously.
SendSubmit(kind, d) ==
  /\ UNCHANGED othersOfSend
  /\ qNow + d <= Epoch + MaxSendElapsed
  /\ qNow' = qNow + d
  /\ LET now == qNow + d
         sent == Sends(kind, qRateLimit, now)
         new == IF sent THEN UpdateRateLimit(qRateLimit, now) ELSE qRateLimit
         direct == sent /\ qChannel \in qUsers
     IN /\ (sent /\ ~direct) => Len(qPending) < MaxPendingSends
        /\ qRateLimit' = new
        /\ qLs' = IF sent THEN saveRateLimitToStorage(new) ELSE qLs
        /\ qPending' = IF sent /\ ~direct THEN Append(qPending, qChannel) ELSE qPending
        /\ qLast' = [kind |-> kind, sent |-> sent,
                     addDoc |-> IF direct THEN qChannel ELSE NoAddDoc,
                     toast |-> SubmitToast(kind, qRateLimit, now)]
  /\ UNCHANGED <<qChannel, qUsers>>

\* await signInAnonymously(channelAuth) of the j-th waiting sendMessage
\* resolves (lines 859-901): on success the addDoc call follows, on failure
\* the catch shows a toast and returns.
SendAuthResolve(j, ok) ==
  /\ UNCHANGED othersOfSend
  /\ j \in DOMAIN qPending
  /\ qPending' = RemoveAt(qPending, j)
  /\ qUsers' = IF ok THEN qUsers \cup {qPending[j]} ELSE qUsers
  /\ qLast' = [kind |-> "none", sent |-> FALSE,
               addDoc |-> IF ok THEN qPending[j] ELSE NoAddDoc,
               toast |-> IF ok THEN NoToast ELSE "Authentication failed"]
  /\ UNCHANGED <<qNow, qRateLimit, qLs, qChannel>>

\* The best-effort signInAnonymously of the client module resolves for the
\* partition of channel c.
SendSignInBackground(c) ==
  /\ UNCHANGED othersOfSend
  /\ c \notin qUsers
  /\ qUsers' = qUsers \cup {c}
  /\ qLast' = [kind |-> "none", sent |-> FALSE, addDoc |-> NoAddDoc, toast |-> NoToast]
  /\ UNCHANGED <<qNow, qRateLimit, qLs, qChannel, qPending>>

\* ChannelSidebar selects another channel.
SendSwitchChannel(c) ==
  /\ UNCHANGED othersOfSend
  /\ c # qChannel
  /\ qChannel' = c
  /\ qLast' = [kind |-> "none", sent |-> FALSE, addDoc |-> NoAddDoc, toast |-> NoToast]
  /\ UNCHANGED <<qNow, qRateLimit, qLs, qUsers, qPending>>

\* The interval of the sync effect fires, e ms after the previous event.
SendSyncEffect(e) ==
  /\ UNCHANGED othersOfSend
  /\ qNow + e <= Epoch + MaxSendElapsed
  /\ qNow' = qNow + e
  /\ LET r == SyncCheck(getRateLimitFromStorage(qLs, qNow + e), qNow + e, qRateLimit, qLs)
     IN /\ qRateLimit' = r.mem
        /\ qLs' = r.ls
  /\ qLast' = [kind |-> "none", sent |-> FALSE, addDoc |-> NoAddDoc, toast |-> NoToast]
  /\ UNCHANGED <<qChannel, qUsers, qPending>>

SendInit ==
  /\ qNow = Epoch
  /\ qRateLimit = ZeroLimit
  /\ qLs = LsAbsent
  /\ qChannel = "general"
  /\ qUsers = {}
  /\ qPending = <<>>
  /\ qLast = [kind |-> "none", sent |-> FALSE, addDoc |-> NoAddDoc, toast |-> NoToast]

SendNext ==
  \/ \E k \in TextKinds, d \in SendDelays : SendSubmit(k, d)
  \/ \E j \in 1..MaxPendingSends, ok \in BOOLEAN : SendAuthResolve(j, ok)
  \/ \E c \in SendChannels : SendSignInBackground(c)
  \/ \E c \in SendChannels : SendSwitchChannel(c)
  \/ \E e \in SendDelays : SendSyncEffect(e)

(***************************************************************************)
(* reportMessage of ChatArea, called by several clients.                   *)
(***************************************************************************)

\* Clients that report, each once.
MaxReporters == 3
Reporters == 1..MaxReporters

\* Messages of the channel that can be reported.
MaxReportMsgs == 2
ReportMsgs == 1..MaxReportMsgs

\* The count from which a message is to be treated as reported (line 949).
ReportThreshold == 2

NoReport == [msg |-> 0, pc |-> "idle"]

\* An update that stores the operand instead of adding it.
incrementAsValue(cur, n) == n

\* updateDoc(ref, {report_count: increment(n)}): the store adds n to the
\* value it holds when it applies the update.
increment(cur, n) == cur + n

\* Client r calls reportMessage(m): up to the first await, the updateDoc call
\* with increment(1).
reportMessage(r, m) ==
  /\ UNCHANGED othersOfReport
  /\ reporters[r].pc = "idle"
  /\ reporters' = [reporters EXCEPT ![r] = [msg |-> m, pc |-> "increment"]]
  /\ UNCHANGED <<reportCount, reported>>

\* The first updateDoc of client r resolves. On success the store has applied
\* the increment and the second updateDoc, {reported: true}, is issued; on
\* failure the catch shows "Failed to report message".
IncrementResolve(r, ok) ==
  /\ UNCHANGED othersOfReport
  /\ reporters[r].pc = "increment"
  /\ LET m == reporters[r].msg IN
     IF ok
     THEN /\ reportCount' = [reportCount EXCEPT ![m] = increment(reportCount[m], 1)]
          /\ reporters' = [reporters EXCEPT ![r].pc = "flag"]
     ELSE /\ reportCount' = reportCount
          /\ reporters' = [reporters EXCEPT ![r].pc = "failed"]
  /\ UNCHANGED reported

\* The second updateDoc of client r resolves. On success the toast "Message
\* reported" is shown.
FlagResolve(r, ok) ==
  /\ UNCHANGED othersOfReport
  /\ reporters[r].pc = "flag"
  /\ LET m == reporters[r].msg IN
     IF ok
     THEN /\ reported' = [reported EXCEPT ![m] = TRUE]
          /\ reporters' = [reporters EXCEPT ![r].pc = "reported"]
     ELSE /\ reported' = reported
          /\ reporters' = [reporters EXCEPT ![r].pc = "flagFailed"]
  /\ UNCHANGED reportCount

\* messageData of sendMessage: report_count 0, reported false.
ReportInit ==
  /\ reportCount = [m \in ReportMsgs |-> 0]
  /\ reported = [m \in ReportMsgs |-> FALSE]
  /\ reporters = [r \in Reporters |-> NoReport]

ReportNext ==
  \/ \E r \in Reporters, m \in ReportMsgs : reportMessage(r, m)
  \/ \E r \in Reporters, ok \in BOOLEAN : IncrementResolve(r, ok)
  \/ \E r \in Reporters, ok \in BOOLEAN : FlagResolve(r, ok)

(***************************************************************************)
(* The composer of ChatArea: handleReply, sendMessage, reportMessage and   *)
(* the copies of the messages on display.                                  *)
(***************************************************************************)

\* Message documents ever created in the store.
MaxChatDocs == 2

\* sendMessage invocations pending at once.
MaxChatSends == 1

\* report_count up to which reportMessage is explored.
MaxChatReports == 1

ChatChannels == {"general", "support"}

\* The username prop of ChatArea, and the name of the other clients.
Me == "me"
Them == "them"

\* Message bodies.
ChatTexts == {"a", "b"}

\* replyToMessage = null
NoReply == [id |-> 0, content |-> "", username |-> ""]

\* A message that never carries a reply-link.
messageDataNoReply(ch, user, content, reply) ==
  [channel |-> ch, username |-> user, content |-> content, created_at |-> 0,
   reported |-> FALSE, report_count |-> 0,
   replyToMessageId |-> 0, replyToContent |-> "", replyToUsername |-> ""]

\* messageData of sendMessage (lines 885-899); created_at is filled in by
\* the store (serverTimestamp()), an absent reply field is 0 or "".
messageData(ch, user, content, reply) ==
  [channel |-> ch, username |-> user, content |-> content, created_at |-> 0,
   reported |-> FALSE, report_count |-> 0,
   replyToMessageId |-> reply.id, replyToContent |-> reply.content,
   replyToUsername |-> reply.username]

\* addDoc applied by the store: the document gets the next timestamp.
Created(store, data) == Append(store, [data EXCEPT !.created_at = Len(store) + 1])

\* An update that also rewrites the body.
flagUpdateRewrites(d) == [d EXCEPT !.reported = TRUE, !.content = "removed"]

\* updateDoc(messageRef, {report_count: increment(1)})
incrementUpdate(d) == [d EXCEPT !.report_count = increment(d.report_count, 1)]

\* updateDoc(messageRef, {reported: true})
flagUpdate(d) == [d EXCEPT !.reported = TRUE]

\* The ChatMessage built from a document snapshot (lines 652-663, 741-753).
ChatMessage(id, d) ==
  [id |-> id, username |-> d.username, content |-> d.content, reported |-> d.reported,
   replyToMessageId |-> d.replyToMessageId, replyToContent |-> d.replyToContent,
   replyToUsername |-> d.replyToUsername]

ChatCopies(ids) == [i \in DOMAIN ids |-> ChatMessage(ids[i], cStore[ids[i]])]

WindowIds == {cWindow[i].id : i \in DOMAIN cWindow}

ChatDocsOf(c) == {m \in DOMAIN cStore : cStore[m].channel = c}

\* The documents matched by the open listener's query.
ChatLiveRange == {m \in ChatDocsOf(cChannel) : m > cSince}

\* A message is created by another client.
ChatPost(c, text) ==
  /\ UNCHANGED othersOfChat
  /\ Len(cStore) + Len(cSends) < MaxChatDocs
  /\ cStore' = Created(cStore, messageData(c, Them, text, NoReply))
  /\ UNCHANGED <<cChannel, cPhase, cSince, cWindow, cReply, cLoading, cUser, cSends,
                 cReports, cDirty>>

\* ChannelSidebar selects channel c: the channel-change effect clears the
\* window and calls subscribeToMessages. replyToMessage is not touched.
ChatSwitch(c) ==
  /\ UNCHANGED othersOfChat
  /\ c # cChannel
  /\ cChannel' = c
  /\ cWindow' = <<>>
  /\ cPhase' = "loading"
  /\ cLoading' = TRUE
  /\ cSince' = 0
  /\ cDirty' = {}
  /\ UNCHANGED <<cStore, cReply, cUser, cSends, cReports>>

\* The server history read of subscribeToMessages resolves and the listener
\* is opened after the newest message of the page (the page size is above
\* MaxChatDocs).
ChatHistory ==
  /\ UNCHANGED othersOfChat
  /\ cPhase = "loading"
  /\ cWindow' = ChatCopies(Asc(ChatDocsOf(cChannel)))
  /\ cSince' = IF ChatDocsOf(cChannel) # {} THEN MaxOf(ChatDocsOf(cChannel))
               ELSE IF Len(cStore) > 0 THEN Len(cStore) - 1 ELSE 0
  /\ cPhase' = "opened"
  /\ cDirty' = {}
  /\ UNCHANGED <<cChannel, cStore, cReply, cLoading, cUser, cSends, cReports>>

\* The snapshot callback of the listener (lines 735-765): its first
\* emission, or an emission after documents of its query were added or
\* modified. Only the changes of type 'added' are used.
ChatSnapshot ==
  /\ UNCHANGED othersOfChat
  /\ LET added == ChatLiveRange \ WindowIds IN
     /\ \/ cPhase = "opened"
        \/ cPhase = "live" /\ (added # {} \/ cDirty # {})
     /\ cWindow' = cWindow \o ChatCopies(Asc(added))
  /\ cPhase' = "live"
  /\ cDirty' = {}
  /\ cLoading' = FALSE
  /\ UNCHANGED <<cChannel, cSince, cStore, cReply, cUser, cSends, cReports>>

\* handleReply, called by the Message at position i of the window.
handleReply(i) ==
  /\ UNCHANGED othersOfChat
  /\ i \in DOMAIN cWindow
  /\ cReply' = [id |-> cWindow[i].id, content |-> cWindow[i].content,
                username |-> cWindow[i].username]
  /\ cReply' # cReply
  /\ UNCHANGED <<cChannel, cPhase, cSince, cStore, cWindow, cLoading, cUser, cSends,
                 cReports, cDirty>>

handleCancelReply ==
  /\ UNCHANGED othersOfChat
  /\ cReply # NoReply
  /\ cReply' = NoReply
  /\ UNCHANGED <<cChannel, cPhase, cSince, cStore, cWindow, cLoading, cUser, cSends,
                 cReports, cDirty>>

\* sendMessage(content) up to its first await; the input is disabled while
\* isLoading. The invocation keeps the channel, username and replyToMessage
\* of the render it was called from.
sendMessage(text) ==
  /\ UNCHANGED othersOfChat
  /\ ~cLoading
  /\ Len(cSends) < MaxChatSends
  /\ Len(cStore) + Len(cSends) < MaxChatDocs
  /\ cLoading' = TRUE
  /\ cSends' = Append(cSends, [data |-> messageData(cChannel, Me, text, cReply),
                               pc |-> IF cUser THEN "addDoc" ELSE "auth"])
  /\ UNCHANGED <<cChannel, cPhase, cSince, cStore, cWindow, cReply, cUser, cReports,
                 cDirty>>

\* await signInAnonymously(channelAuth) of the j-th sendMessage settles.
ChatAuthResolve(j, ok) ==
  /\ UNCHANGED othersOfChat
  /\ j \in DOMAIN cSends
  /\ cSends[j].pc = "auth"
  /\ IF ok
     THEN /\ cUser' = TRUE
          /\ cSends' = [cSends EXCEPT ![j].pc = "addDoc"]
          /\ UNCHANGED cLoading
     ELSE /\ cSends' = RemoveAt(cSends, j)
          /\ cLoading' = FALSE
          /\ UNCHANGED cUser
  /\ UNCHANGED <<cChannel, cPhase, cSince, cStore, cWindow, cReply, cReports, cDirty>>

\* await addDoc(...) of the j-th sendMessage settles (lines 901-938).
ChatAddDocResolve(j, ok) ==
  /\ UNCHANGED othersOfChat
  /\ j \in DOMAIN cSends
  /\ cSends[j].pc = "addDoc"
  /\ IF ok
     THEN /\ cStore' = Created(cStore, cSends[j].data)
          /\ cReply' = NoReply
     ELSE UNCHANGED <<cStore, cReply>>
  /\ cSends' = RemoveAt(cSends, j)
  /\ cLoading' = FALSE
  /\ UNCHANGED <<cChannel, cPhase, cSince, cWindow, cUser, cReports, cDirty>>

\* The ids whose modification the open listener is told about.
Touched(m) == IF cPhase # "loading" /\ m \in ChatLiveRange THEN {m} ELSE {}

\* reportMessage(messageId), called by the Message at position i of the
\* window, up to its first await.
ChatReport(i) ==
  /\ UNCHANGED othersOfChat
  /\ i \in DOMAIN cWindow
  /\ cReports = <<>>
  /\ cStore[cWindow[i].id].report_count < MaxChatReports
  /\ cReports' = <<[msg |-> cWindow[i].id, pc |-> "increment"]>>
  /\ UNCHANGED <<cChannel, cPhase, cSince, cStore, cWindow, cReply, cLoading, cUser,
                 cSends, cDirty>>

\* The first updateDoc of the pending reportMessage settles.
ChatIncrementResolve(ok) ==
  /\ UNCHANGED othersOfChat
  /\ cReports # <<>>
  /\ cReports[1].pc = "increment"
  /\ LET m == cReports[1].msg IN
     IF ok
     THEN /\ cStore' = [cStore EXCEPT ![m] = incrementUpdate(cStore[m])]
          /\ cReports' = <<[msg |-> m, pc |-> "flag"]>>
          /\ cDirty' = cDirty \cup Touched(m)
     ELSE /\ cReports' = <<>>
          /\ UNCHANGED <<cStore, cDirty>>
  /\ UNCHANGED <<cChannel, cPhase, cSince, cWindow, cReply, cLoading, cUser, cSends>>

\* The second updateDoc of the pending reportMessage settles.
ChatFlagResolve(ok) ==
  /\ UNCHANGED othersOfChat
  /\ cReports # <<>>
  /\ cReports[1].pc = "flag"
  /\ LET m == cReports[1].msg IN
     IF ok
     THEN /\ cStore' = [cStore EXCEPT ![m] = flagUpdate(cStore[m])]
          /\ cDirty' = cDirty \cup Touched(m)
     ELSE UNCHANGED <<cStore, cDirty>>
  /\ cReports' = <<>>
  /\ UNCHANGED <<cChannel, cPhase, cSince, cWindow, cReply, cLoading, cUser, cSends>>

\* ChatArea mounted on "general": the channel-change effect has run.
ChatInit ==
  /\ cChannel = "general"
  /\ cPhase = "loading"
  /\ cSince = 0
  /\ cStore = <<>>
  /\ cWindow = <<>>
  /\ cReply = NoReply
  /\ cLoading = TRUE
  /\ cUser = FALSE
  /\ cSends = <<>>
  /\ cReports = <<>>
  /\ cDirty = {}

ChatNext ==
  \/ \E c \in ChatChannels, text \in ChatTexts : ChatPost(c, text)
  \/ \E c \in ChatChannels : ChatSwitch(c)
  \/ ChatHistory
  \/ ChatSnapshot
  \/ \E i \in 1..MaxChatDocs : handleReply(i)
  \/ handleCancelReply
  \/ \E text \in ChatTexts : sendMessage(text)
  \/ \E j \in 1..MaxChatSends, ok \in BOOLEAN : ChatAuthResolve(j, ok)
  \/ \E j \in 1..MaxChatSends, ok \in BOOLEAN : ChatAddDocResolve(j, ok)
  \/ \E i \in 1..MaxChatDocs : ChatReport(i)
  \/ \E ok \in BOOLEAN : ChatIncrementResolve(ok)
  \/ \E ok \in BOOLEAN : ChatFlagResolve(ok)

(***************************************************************************)
(* Index.tsx: handleUsernameSet over the RTDB reservations, and the lazy   *)
(* RTDB connection of the client module.                                   *)
(***************************************************************************)

\* Clients; the subject id (auth uid) of client c is c.
MaxNameClients == 2
NameClients == 1..MaxNameClients

\* handleUsernameSet invocations one client has pending at once.
MaxNameCalls == 2

\* What the user types into UsernamePrompt.
NameInputs == {"Bob", "bob", " "}

\* newUsername.trim()
Trim(n) == IF n = " " THEN "" ELSE n

\* normalized.toLowerCase()
Lower(n) == IF n = "Bob" THEN "bob" ELSE n

NameKeys == {Lower(Trim(n)) : n \in NameInputs} \ {""}

\* usernames/<key> holds null
NoRecord == [username |-> "", userId |-> 0]

\* An update function that takes the key whoever holds it.
reserveAlways(current, normalized, userId) ==
  [username |-> normalized, userId |-> userId]

\* The update function of runTransaction (lines 65-76); reservedAt is left out.
reserve(current, normalized, userId) ==
  IF current = NoRecord \/ current.userId = userId
  THEN [username |-> normalized, userId |-> userId]
  ELSE current

\* A disconnect that leaves the connection as it is.
disconnectRTDBSkipped(c) == nOnline

\* connectRTDB: getRTDB(), then goOnline(db)
connectRTDB(c) == [nOnline EXCEPT ![c] = TRUE]

\* disconnectRTDB: goOffline(rtdbInstance)
disconnectRTDB(c) == [nOnline EXCEPT ![c] = FALSE]

NameAuthResults == {"ok", "nouser", "error"}

\* handleUsernameSet(input) of client c up to its first await. The prompt is
\* rendered only while the client has no username.
handleUsernameSet(c, input) ==
  /\ UNCHANGED othersOfNames
  /\ nUsername[c] = ""
  /\ nLast' = NoToast
  /\ IF Trim(input) = ""
     THEN UNCHANGED <<nOnline, nCalls>>
     ELSE /\ Len(nCalls[c]) < MaxNameCalls
          /\ nOnline' = connectRTDB(c)
          /\ nCalls' = [nCalls EXCEPT ![c] =
                          Append(@, [name |-> Trim(input),
                                     pc |-> IF nUser[c] THEN "txn" ELSE "auth"])]
  /\ UNCHANGED <<nRecords, nUsername, nStored, nUser>>

\* await signInAnonymously(auth) of the j-th pending call of client c settles:
\* a user, no user id (lines 55-63), or a rejection (the catch); the last two
\* end the call through the finally.
NameAuthResolve(c, j, r) ==
  /\ UNCHANGED othersOfNames
  /\ j \in DOMAIN nCalls[c]
  /\ nCalls[c][j].pc = "auth"
  /\ IF r = "ok"
     THEN /\ nUser' = [nUser EXCEPT ![c] = TRUE]
          /\ nCalls' = [nCalls EXCEPT ![c][j].pc = "txn"]
          /\ nLast' = NoToast
          /\ UNCHANGED nOnline
     ELSE /\ nCalls' = [nCalls EXCEPT ![c] = RemoveAt(@, j)]
          /\ nLast' = IF r = "nouser" THEN "Authentication required"
                      ELSE "Could not set username"
          /\ nOnline' = disconnectRTDB(c)
          /\ UNCHANGED nUser
  /\ UNCHANGED <<nRecords, nUsername, nStored>>

\* await runTransaction(...) of the j-th pending call of client c settles.
\* The server applies the update function to the record it holds; the
\* transaction completes only over an open connection.
NameTxnResolve(c, j, ok) ==
  /\ UNCHANGED othersOfNames
  /\ j \in DOMAIN nCalls[c]
  /\ nCalls[c][j].pc = "txn"
  /\ LET name == nCalls[c][j].name
         key == Lower(name)
         new == reserve(nRecords[key], name, c)
     IN IF ok
        THEN /\ nOnline[c]
             /\ nRecords' = [nRecords EXCEPT ![key] = new]
             /\ IF new.userId # c
                THEN /\ nLast' = "Username unavailable"
                     /\ UNCHANGED <<nUsername, nStored>>
                ELSE /\ nLast' = NoToast
                     /\ nStored' = [nStored EXCEPT ![c] = name]
                     /\ nUsername' = [nUsername EXCEPT ![c] = name]
        ELSE /\ nLast' = "Could not set username"
             /\ UNCHANGED <<nRecords, nUsername, nStored>>
  /\ nCalls' = [nCalls EXCEPT ![c] = RemoveAt(@, j)]
  /\ nOnline' = disconnectRTDB(c)
  /\ UNCHANGED nUser

\* Client c loads the page again, in the same tab (sessionStorage kept: the
\* mount effect of lines 20-25 takes the stored name) or in a new one. The
\* pending calls and the RTDB instance are gone with the old page.
NameReload(c, sameTab) ==
  /\ UNCHANGED othersOfNames
  /\ nCalls' = [nCalls EXCEPT ![c] = <<>>]
  /\ nOnline' = [nOnline EXCEPT ![c] = FALSE]
  /\ nUser' = [nUser EXCEPT ![c] = FALSE]
  /\ nStored' = [nStored EXCEPT ![c] = IF sameTab THEN @ ELSE ""]
  /\ nUsername' = [nUsername EXCEPT ![c] = IF sameTab THEN nStored[c] ELSE ""]
  /\ nLast' = NoToast
  /\ UNCHANGED nRecords

NamesInit ==
  /\ nRecords = [k \in NameKeys |-> NoRecord]
  /\ nUsername = [c \in NameClients |-> ""]
  /\ nStored = [c \in NameClients |-> ""]
  /\ nOnline = [c \in NameClients |-> FALSE]
  /\ nUser = [c \in NameClients |-> FALSE]
  /\ nCalls = [c \in NameClients |-> <<>>]
  /\ nLast = NoToast

NamesNext ==
  \/ \E c \in NameClients, input \in NameInputs : handleUsernameSet(c, input)
  \/ \E c \in NameClients, j \in 1..MaxNameCalls, r \in NameAuthResults :
       NameAuthResolve(c, j, r)
  \/ \E c \in NameClients, j \in 1..MaxNameCalls, ok \in BOOLEAN : NameTxnResolve(c, j, ok)
  \/ \E c \in NameClients, sameTab \in BOOLEAN : NameReload(c, sameTab)

Init ==
  /\ FeedInit /\ RLInit /\ GateInit /\ TabsInit /\ StoreInit /\ RouterInit
  /\ SendInit /\ ReportInit /\ ChatInit /\ NamesInit

Next == FeedNext

Spec == Init /\ [][Next]_vars

\* An await of invocation i settles: the promise resolves or rejects.
Settles(i) ==
  \/ \E ok \in BOOLEAN : AuthResolve(i, ok)
  \/ \E ok \in BOOLEAN : CacheResolve(i, ok)
  \/ \E r \in ReadResults : ServerResolve(i, r)
  \/ \E ok \in BOOLEAN : MoreCacheResolve(i, ok)
  \/ \E ok \in BOOLEAN : MoreServerResolve(i, ok)

\* The feed controller with its scheduling: every pending promise settles
\* and every open listener delivers its emissions.
SpecLive ==
  /\ Init /\ [][Next]_vars
  /\ \A i \in 1..MaxTasks : WF_vars(Settles(i))
  /\ \A s \in 1..MaxTasks : WF_vars(Deliver(s))

NextRL == RLNext

SpecRL == Init /\ [][NextRL]_vars

NextGate == GateNext

SpecGate == Init /\ [][NextGate]_vars

NextTabs == TabsNext

SpecTabs == Init /\ [][NextTabs]_vars

NextStore == StoreNext

SpecStore == Init /\ [][NextStore]_vars

NextRouter == RouterNext

SpecRouter == Init /\ [][NextRouter]_vars

NextSend == SendNext

SpecSend == Init /\ [][NextSend]_vars

NextReport == ReportNext

SpecReport == Init /\ [][NextReport]_vars

NextChat == ChatNext

SpecChat == Init /\ [][NextChat]_vars

\* The composer with its scheduling: pending promises settle and the open
\* listener delivers its emissions.
SpecChatLive ==
  /\ Init /\ [][NextChat]_vars
  /\ WF_vars(ChatHistory)
  /\ WF_vars(ChatSnapshot)
  /\ WF_vars(\E j \in 1..MaxChatSends, ok \in BOOLEAN : ChatAuthResolve(j, ok))
  /\ WF_vars(\E j \in 1..MaxChatSends, ok \in BOOLEAN : ChatAddDocResolve(j, ok))
  /\ WF_vars(\E ok \in BOOLEAN : ChatIncrementResolve(ok))
  /\ WF_vars(\E ok \in BOOLEAN : ChatFlagResolve(ok))

NextNames == NamesNext

SpecNames == Init /\ [][NextNames]_vars

(***************************************************************************)
(* Feed controller: claims.                                                *)
(***************************************************************************)

\* The step is an emission of listener s that delivers new documents.
Delivers(s) ==
  /\ s \in DOMAIN subs
  /\ subs[s].active
  /\ subs'[s].active
  /\ subs[s].seen # subs'[s].seen
  /\ subs[s].seen \subseteq subs'[s].seen

\* C1: while channel B is open, no message delivered by the live subscription
\* of another channel A is added to the Feed Window.
C1_NoStaleDelivery ==
  [][\A s \in DOMAIN subs :
       (mounted /\ channel' = channel /\ subs[s].channel # channel /\ Delivers(s))
         => (Range(messages') \cap (subs'[s].seen \ subs[s].seen)) \subseteq Range(messages)
    ]_vars

\* C2: a history fetch (initial cache read, initial server read, load-more page)
\* issued for channel A that resolves while B is open changes neither the Feed
\* Window, nor the cursor, nor the more-available flag.
C2_StaleFetchDiscarded ==
  [][\A i \in DOMAIN tasks :
       (mounted /\ channel' = channel /\ tasks[i].channel # channel
          /\ tasks'[i] # tasks[i])
         => (messages' = messages /\ oldestDoc' = oldestDoc /\ hasMore' = hasMore)
    ]_vars

\* C3: at most one live subscription is active, and an active subscription is
\* the registered one: every listener registered before it has been
\* unsubscribed before it was opened.
C3_OneSubscription ==
  /\ Cardinality(ActiveSubs) <= 1
  /\ \A s \in ActiveSubs : s = unsubHandle

\* C3 witness: a second listener has been opened by a load that resolved after
\* a channel switch, and it is the only active one.
C3_Witness ==
  /\ Len(subs) >= 2
  /\ ActiveSubs = {Len(subs)}
  /\ mounted
  /\ subs[Len(subs)].channel # channel

\* C4: once every pending load has resolved, no live subscription of a closed
\* view or of an abandoned channel is active.
C4_NoOrphanSubscription ==
  Pending = {} => \A s \in ActiveSubs : mounted /\ subs[s].channel = channel

(***************************************************************************)
(* rate-limiter.ts: claims.                                                *)
(***************************************************************************)

\* C5: for every channel of the session, after three allowed calls within the
\* burst window (120 s from the first of them) the next call within that
\* window is denied, and after a denial no call is allowed before the
\* resetTime the denial reported.
C5_BurstThenCooldown ==
  \A c \in RLChannels :
    LET L == rlLog[c] IN
    /\ (/\ Len(L) >= 4
        /\ L[1].allowed /\ L[2].allowed /\ L[3].allowed
        /\ L[3].t - L[1].t <= burstWindowMs
        /\ L[4].t - L[1].t <= burstWindowMs)
         => ~L[4].allowed
    /\ \A j, k \in DOMAIN L :
         (j < k /\ ~L[j].allowed /\ L[k].t < L[j].resetTime) => ~L[k].allowed

\* C6: three calls within 10 seconds are all allowed, and a fourth call within
\* 120 s of the first is denied with a resetTime at the end of the 30 s
\* cooldown: not before the first call + 30 s, not after the denied call + 30 s.
C6_ScenarioFourthDenied ==
  \A c \in RLChannels :
    LET L == rlLog[c] IN
    /\ \A i \in 1..3 : (i <= Len(L) /\ L[i].t - L[1].t <= 10000) => L[i].allowed
    /\ (/\ Len(L) >= 4
        /\ L[3].t - L[1].t <= 10000
        /\ L[4].t - L[1].t <= burstWindowMs)
         => /\ ~L[4].allowed
            /\ L[4].resetTime >= L[1].t + windowMs
            /\ L[4].resetTime <= L[4].t + windowMs

(***************************************************************************)
(* MessageInput: claims.                                                   *)
(***************************************************************************)

\* The step is a call of handleSubmit.
SubmitStep == \E k \in TextKinds, d \in GateDelays : handleSubmit(k, d)

\* C7: the valid submission that raises the count of the burst window above
\* MAX_SUBMISSIONS imposes the cooldown and is not passed to onSendMessage.
C7_OverLimitNotSent ==
  [][(/\ SubmitStep
      /\ gLast'.kind = "valid"
      /\ gNow' >= rateLimit.cooldownUntil
      /\ gNow' - rateLimit.lastSubmitTime <= BURST_WINDOW
      /\ rateLimit.submissionCount + 1 > MAX_SUBMISSIONS)
       => (rateLimit'.cooldownUntil = gNow' + COOLDOWN_PERIOD /\ ~gLast'.sent)
    ]_vars

\* C8: from the imposition of a cooldown until its end every submission is
\* rejected, onSendMessage is not called and the rate-limit state is unchanged
\* in memory and in storage; the first valid submission after its end is sent
\* and counts as the first of a new window.
C8_CooldownRejects ==
  [][SubmitStep =>
       /\ (gCooldown.until # 0 /\ gNow' < gCooldown.until)
            => (~gLast'.sent /\ rateLimit' = rateLimit /\ lsGate' = lsGate)
       /\ (/\ gCooldown.until # 0
           /\ ~gCooldown.resumed
           /\ gNow' >= gCooldown.until
           /\ gLast'.kind = "valid")
            => /\ gLast'.sent
               /\ rateLimit'.submissionCount = 1
               /\ rateLimit'.lastSubmitTime = gNow'
               /\ lsGate' = saveRateLimitToStorage(rateLimit')
    ]_vars

\* C8 witness: a cooldown was imposed, a submission was rejected during it,
\* and after its end a valid submission was sent as the first of a new window.
C8_Witness ==
  /\ gCooldown.until # 0
  /\ gCooldown.rejected
  /\ gCooldown.resumed
  /\ gLast.sent
  /\ rateLimit.submissionCount = 1
  /\ gNow >= gCooldown.until

\* C9: a sent submission made more than BURST_WINDOW after the first
\* submission of the current window starts a new window with count 1.
C9_WindowFromFirst ==
  [][(SubmitStep /\ gLast'.sent /\ gWinFirst # 0 /\ gNow' - gWinFirst > BURST_WINDOW)
       => rateLimit'.submissionCount = 1
    ]_vars

\* C10: a valid submission in a channel is denied only during a cooldown that
\* a submission in that same channel imposed.
C10_GatePerChannel ==
  [][(SubmitStep /\ gLast'.kind = "valid" /\ ~gLast'.sent)
       => (gCooldown.until # 0 /\ gNow' < gCooldown.until
           /\ gCooldown.channel = gLast'.channel)
    ]_vars

(***************************************************************************)
(* MessageInput in two tabs: claims.                                       *)
(***************************************************************************)

\* The step is a call of handleSubmit in one of the tabs.
TabSubmitStep == \E i \in Tabs, k \in TextKinds, d \in TabDelays : TabSubmit(i, k, d)

\* C11: with two tabs sharing the storage, every valid submission decides on
\* the record as last written by either tab and updates that record, and the
\* messages sent by both tabs within one burst window do not exceed
\* MAX_SUBMISSIONS.
C11_TabsShareRecord ==
  [][(TabSubmitStep /\ tLast'.kind = "valid") =>
       LET stored == getRateLimitFromStorage(tLs, tNow') IN
       /\ tLast'.sent <=> ~isInCooldown(stored, tNow')
       /\ tLast'.sent =>
            /\ tLs'.data.submissionCount
                 = UpdateRateLimit(stored, tNow').submissionCount
            /\ tWinSent' <= MAX_SUBMISSIONS
    ]_vars

(***************************************************************************)
(* checkRateLimit over a failing localStorage: claims.                     *)
(***************************************************************************)

\* The step is a call of checkRateLimit.
StoreCallStep == \E d \in StoreDelays : StoreCall(d)

\* C12: checkRateLimit never fails because of the storage: a record that
\* cannot be read or parsed is treated as absent (the call is allowed as a
\* first submission); a failed write evicts only rate-limit entries older
\* than five minutes or unparsable and is retried exactly once; the result is
\* returned whether or not the retry stored the record.
C12_StorageFailOpen ==
  [][StoreCallStep =>
       /\ sLast'.outcome # "threw"
       /\ sLast'.found \in {"absent", "unreadable", "corrupt"} => sLast'.first
       /\ \A x \in sLast'.evicted :
            HasPrefix(x.key) /\ (~x.parses \/ sNow' - x.timestamp > RetentionMs)
       /\ sLast'.attempts <= 2
       /\ (sLast'.evicted # {} \/ (sLast'.attempts > 0 /\ ~sLast'.stored))
            => sLast'.attempts = 2
    ]_vars

(***************************************************************************)
(* The channel router: claims.                                             *)
(***************************************************************************)

\* C13: getFirestoreForChannel resolves "general" to the general store,
\* "support" to the support store, "confessions" to the main store and every
\* other id to the location store, and the four stores are pairwise distinct
\* instances on pairwise distinct projects.
C13_RouterTotal ==
  /\ rStore \in Stores
  /\ rStore = generalDb <=> rChannel = "general"
  /\ rStore = supportDb <=> rChannel = "support"
  /\ rStore = db <=> rChannel = "confessions"
  /\ rStore = locationDb <=> rChannel \notin {"general", "support", "confessions"}
  /\ Cardinality(Stores) = 4
  /\ Cardinality({ProjectOf(AppOf(h)) : h \in Stores}) = 4

\* C13 witness: a channel id that is no reserved id has been resolved, to the
\* location store.
C13_Witness == rChannel = "Confessions" /\ rStore = locationDb

\* C14: for every channel id the store and the identity handle belong to the
\* same backend project, and isLocationChannel is true exactly when both are
\* the ones of the location partition.
C14_RouterAgrees ==
  /\ AppOf(rAuth) = AppOf(rStore)
  /\ ProjectOf(AppOf(rAuth)) = ProjectOf(AppOf(rStore))
  /\ rIsLocation <=> (rStore = locationDb /\ rAuth = locationAuth)

\* C14 witness: a location channel and a reserved channel have been resolved.
C14_Witness == rChannel = "food" /\ rIsLocation /\ rAuth = locationAuth

\* C15: every store operation issued for channel c goes to the store of c,
\* every query is filtered on channel = c and every sent message carries
\* channel = c, so no operation goes through the store of a channel that maps
\* to a different partition.
C15_OpsOnOwnPartition ==
  rOp.kind # "none" =>
    /\ rOp.store = getFirestoreForChannel(rOp.channel)
    /\ rOp.kind \in {"history", "loadMore", "live"} => rOp.filter = rOp.channel
    /\ rOp.kind = "send" => rOp.payload = rOp.channel
    /\ \A b \in ChannelIds :
         getFirestoreForChannel(b) # getFirestoreForChannel(rOp.channel)
           => rOp.store # getFirestoreForChannel(b)

\* C15 witness: a message has been sent in "support", through the support
\* store.
C15_Witness == rOp.kind = "send" /\ rOp.channel = "support" /\ rOp.store = supportDb

\* C16: the isolation check returns true for the routing of the module, and
\* false for every routing in which "support" and "confessions" get the same
\* store or one of them gets a store other than its dedicated one.
C16_IsolationCheck ==
  /\ verifySupportChannelIsolation
  /\ rCheck.support # "none" =>
       (rCheck.result <=> (/\ rCheck.support = supportDb
                           /\ rCheck.confessions = db
                           /\ rCheck.support # rCheck.confessions))

\* C16 witness: the check has been applied to a routing that sends "support"
\* to the main store, and returned false.
C16_Witness == rCheck.support = db /\ rCheck.confessions = db /\ ~rCheck.result

(***************************************************************************)
(* Feed controller: the merge of history, pages and live deliveries.       *)
(***************************************************************************)

\* C17: no two entries of the Feed Window have the same message id.
C17_NoDuplicates ==
  \A i, j \in DOMAIN messages : i # j => messages[i] # messages[j]

\* C17 witness: a message that a history read returned (it is the cursor) has
\* also been delivered by the active listener, and the window holds it once.
C17_Witness ==
  /\ mounted
  /\ \E s \in ActiveSubs :
       /\ subs[s].channel = channel
       /\ oldestDoc \in subs[s].seen
       /\ Cardinality({i \in DOMAIN messages : messages[i] = oldestDoc}) = 1

\* C18: the Feed Window is ordered oldest-first by creation time.
C18_OldestFirst ==
  \A i, j \in DOMAIN messages : i < j => messages[i] < messages[j]

\* The step opens a listener.
OpensListener == Len(subs') = Len(subs) + 1

\* The newest creation time of a history page (newest first), or the current
\* time minus the safety margin for an empty page.
ExpectedBoundary(page) ==
  IF Len(page) > 0 THEN MaxOf(Range(page))
  ELSE IF Len(docs) > 0 THEN Len(docs) - 1 ELSE 0

C20_ServerReplaces ==
  [][\A i \in DOMAIN tasks :
       (mounted /\ ServerResolve(i, "ok")) =>
         LET page == DocsOf(tasks[i].channel, AllDocs)
             n == Cardinality(page)
             shown == IF n <= PageSize THEN page
                      ELSE {m \in page : Cardinality({x \in page : x > m}) < PageSize}
         IN /\ Range(messages') = shown
            /\ Len(messages') = Cardinality(shown)
            /\ \A a, b \in DOMAIN messages' : a < b => messages'[a] < messages'[b]
            /\ oldestDoc' = IF shown = {} THEN 0 ELSE MinOf(shown)
            /\ hasMore' = (Cardinality(shown) = PageSize)
    ]_vars

\* C20 witness: the window shows a full page of the open channel's server
\* history with its cursor, while the cache also holds an older message of
\* the channel that the window does not show.
C20_Witness ==
  /\ mounted
  /\ Len(messages) = PageSize
  /\ Range(messages) = Range(HistoryQuery(channel, AllDocs))
  /\ oldestDoc = messages[1]
  /\ \E m \in cache : docs[m] = channel /\ m \notin Range(messages)
  /\ unsubHandle \in ActiveSubs
  /\ subs[unsubHandle].since = messages[Len(messages)]
  /\ ~subs[unsubHandle].fired

(***************************************************************************)
(* Feed controller: backward pagination.                                   *)
(***************************************************************************)

\* The step in which load-more invocation i applies a page: a non-empty cache
\* page, or the page of the server.
AppliesPage(i) ==
  \/ /\ MoreCacheResolve(i, TRUE)
     /\ Len(MoreQuery(tasks[i].channel, tasks[i].cursor, cache)) > 0
  \/ MoreServerResolve(i, TRUE)

\* The page that step applies, newest first.
PageApplied(i) ==
  IF tasks[i].pc = "cache" THEN MoreQuery(tasks[i].channel, tasks[i].cursor, cache)
  ELSE MoreQuery(tasks[i].channel, tasks[i].cursor, AllDocs)

\* C21: a load-more applies a page of at most PageSize messages, all strictly
\* older than the cursor it started from, taken from the cache unless the
\* cache page is empty or the cache read fails; they are messages of the
\* channel it was started on, which is the channel whose Feed Window is on
\* display; the messages of the page not yet in the Feed Window are put in
\* front of it oldest first; the cursor becomes the oldest message of the
\* page, which is then the oldest message of the Feed Window.
C21_LoadMorePage ==
  [][\A i \in DOMAIN tasks :
      /\ \A ok \in BOOLEAN :
           (MoreCacheResolve(i, ok) /\ tasks'[i].pc = "server") =>
             (~ok \/ MoreQuery(tasks[i].channel, tasks[i].cursor, cache) = <<>>)
      /\ (mounted /\ AppliesPage(i)) =>
         LET page == Range(PageApplied(i))
             k == Len(messages') - Len(messages)
         IN /\ Cardinality(page) <= PageSize
            /\ \A m \in page : docs[m] = tasks[i].channel /\ m < tasks[i].cursor
            /\ \A m \in page : docs[m] = channel
            /\ k >= 0
            /\ \A j \in DOMAIN messages : messages'[k + j] = messages[j]
            /\ {messages'[j] : j \in 1..k} = page \ Range(messages)
            /\ \A a, b \in 1..k : a < b => messages'[a] < messages'[b]
            /\ page # {} => oldestDoc' = MinOf(page)
            /\ page # {} => oldestDoc' = MinOf(Range(messages'))
    ]_vars

\* No message of invocation i's channel is older than the cursor it started from.
NothingOlder(i) ==
  {m \in AllDocs : docs[m] = tasks[i].channel /\ m < tasks[i].cursor} = {}

\* C22: a load-more page shorter than PageSize sets more-available to false;
\* a load-more started when its channel has no message older than the cursor
\* adds nothing to the Feed Window and leaves the cursor where it is at each
\* of its steps, and ends with more-available false, also when it is made
\* again after more-available was set anew.
C22_PaginationEnd ==
  [][\A i \in DOMAIN tasks :
       /\ (mounted /\ AppliesPage(i) /\ Len(PageApplied(i)) < PageSize) =>
            hasMore' = FALSE
       /\ \A ok \in BOOLEAN :
            (/\ mounted
             /\ NothingOlder(i)
             /\ MoreCacheResolve(i, ok) \/ MoreServerResolve(i, ok)) =>
               /\ messages' = messages
               /\ oldestDoc' = oldestDoc
               /\ tasks'[i].pc = "done" => hasMore' = FALSE
    ]_vars

\* C22 witness: the view has completed two load-mores, the channel holds
\* exactly one full page, all of it in the Feed Window, and more-available is
\* false.
C22_Witness ==
  /\ mounted
  /\ Cardinality({i \in DOMAIN tasks : tasks[i].kind = "more" /\ tasks[i].pc = "done"}) = 2
  /\ Cardinality(DocsOf(channel, AllDocs)) = PageSize
  /\ Range(messages) = DocsOf(channel, AllDocs)
  /\ oldestDoc = MinOf(Range(messages))
  /\ ~hasMore

(***************************************************************************)
(* Feed controller: failures of the store reads.                           *)
(***************************************************************************)

\* The codes of a transient connectivity failure.
TransientCodes == {"unavailable", "deadline-exceeded"}

C24_NoDataErrorSurfaced ==
  [][\A i \in DOMAIN tasks : \A code \in ErrorCodes :
       (ServerResolve(i, code) /\ ~HasCachedPage(tasks[i])) => toast' # NoToast
    ]_vars

\* The code of a read that needs a composite index the store does not have.
IndexMissing == "failed-precondition"

\* C25: a history read or a live listener that fails for a missing index
\* shows the "Index Required" error.
C25_IndexErrorSurfaced ==
  [][/\ \A i \in DOMAIN tasks :
          ServerResolve(i, IndexMissing) => toast' = "Index Required"
     /\ \A s \in DOMAIN subs :
          ListenerError(s, IndexMissing) => toast' = "Index Required"
    ]_vars

(***************************************************************************)
(* Feed controller: the phases of a channel open.                          *)
(***************************************************************************)

\* The invocation of subscribeToMessages made by the latest channel open.
CurrentOpen == MaxOf({i \in DOMAIN tasks : tasks[i].kind = "open"})

\* The phase of the channel on display.
Phase ==
  IF ~mounted \/ {i \in DOMAIN tasks : tasks[i].kind = "open"} = {} THEN "Idle"
  ELSE IF tasks[CurrentOpen].pc \in {"auth", "cache"} THEN "LoadingCacheHistory"
  ELSE IF tasks[CurrentOpen].pc = "server" THEN "LoadingServerHistory"
  ELSE IF unsubHandle \in ActiveSubs /\ subs[unsubHandle].channel = channel THEN "Live"
  ELSE "Idle"

\* C26: a load-more on a Feed Window that holds messages of the channel on
\* display starts only after the server history attempt of that channel open
\* has resolved (phase Live, or Idle again once the listener was ended), not
\* in a loading phase; and the steps of a load-more leave the listener as it is.
C26_LoadMoreFromLive ==
  [][/\ (handleLoadMore /\ \A m \in Range(messages) : docs[m] = channel) =>
          Phase \in {"Live", "Idle"}
     /\ \A i \in DOMAIN tasks : \A ok \in BOOLEAN :
          (MoreCacheResolve(i, ok) \/ MoreServerResolve(i, ok)) =>
            subs' = subs /\ unsubHandle' = unsubHandle
    ]_vars

\* C27: when the sign-in awaited by the open of the channel on display fails
\* (the partition has no user) while the cache holds messages of that channel,
\* the open still goes on to read the cache, and so displays the cached
\* history.
C27_SignInFailureKeepsReads ==
  [][\A i \in DOMAIN tasks :
       (/\ AuthResolve(i, FALSE)
        /\ tasks[i].kind = "open"
        /\ mounted
        /\ tasks[i].channel = channel
        /\ channel \notin signedIn
        /\ HistoryQuery(channel, cache) # <<>>) =>
          tasks'[i].pc = "cache"
    ]_vars

(***************************************************************************)
(* The send path.                                                          *)
(***************************************************************************)

SendSubmitStep == \E k \in TextKinds, d \in SendDelays : SendSubmit(k, d)

\* C28: addDoc is called only for a submission whose text is not blank, was
\* accepted by the filter and was made outside a cooldown, either in the
\* submission step or when the sign-in it waited for succeeds; a submission
\* that is blank, rejected by the filter or made in a cooldown calls neither
\* onSendMessage nor addDoc, queues no send and leaves the rate-limit state
\* and its stored copy as they were.
C28_WriteOnlyAfterGate ==
  [][/\ \A k \in TextKinds, d \in SendDelays :
          SendSubmit(k, d) =>
            LET accepted == k = "valid" /\ ~(qNow' < qRateLimit.cooldownUntil)
            IN /\ qLast'.addDoc # NoAddDoc => accepted
               /\ Len(qPending') > Len(qPending) => accepted
               /\ ~accepted =>
                    /\ ~qLast'.sent
                    /\ qLast'.addDoc = NoAddDoc
                    /\ qPending' = qPending
                    /\ qRateLimit' = qRateLimit
                    /\ qLs' = qLs
     /\ \A j \in DOMAIN qPending :
          SendAuthResolve(j, FALSE) => qLast'.addDoc = NoAddDoc
     /\ ~SendSubmitStep => Len(qPending') <= Len(qPending)
     /\ (\E c \in SendChannels : SendSwitchChannel(c) \/ SendSignInBackground(c)) =>
          qLast'.addDoc = NoAddDoc
     /\ (\E e \in SendDelays : SendSyncEffect(e)) => qLast'.addDoc = NoAddDoc
    ]_vars

\* C28 witness: a valid text was submitted during a cooldown that an earlier
\* burst of sent messages imposed; nothing was written for it.
C28_Witness ==
  /\ qLast.kind = "valid"
  /\ ~qLast.sent
  /\ qLast.addDoc = NoAddDoc
  /\ qLast.toast = "Rate limit exceeded"
  /\ qNow < qRateLimit.cooldownUntil
  /\ qLs.present /\ qLs.data = qRateLimit

(***************************************************************************)
(* Reports.                                                                *)
(***************************************************************************)

\* The reportMessage calls on message m whose increment the store has applied.
Incremented(m) ==
  {r \in Reporters : reporters[r].msg = m /\ reporters[r].pc \in {"flag", "reported", "flagFailed"}}

\* C29: the stored report count of a message is the number of reportMessage
\* calls whose increment the store applied, in every interleaving of the
\* reporters; when N calls succeeded and no other call got past its
\* increment, the count is N.
C29_AtomicIncrement ==
  \A m \in ReportMsgs :
    /\ reportCount[m] = Cardinality(Incremented(m))
    /\ (\A r \in Incremented(m) : reporters[r].pc = "reported") =>
         reportCount[m] = Cardinality({r \in Reporters : reporters[r].msg = m
                                                        /\ reporters[r].pc = "reported"})

\* C29 witness: every client has reported the same message with success.
C29_Witness ==
  /\ \A r \in Reporters : reporters[r] = [msg |-> 1, pc |-> "reported"]
  /\ reportCount[1] = MaxReporters

\* C30: a message whose stored report count is below the threshold is not
\* flagged as reported.
C30_FlagOnlyFromThreshold ==
  \A m \in ReportMsgs : reportCount[m] < ReportThreshold => ~reported[m]

(***************************************************************************)
(* rate-limiter.ts: expiry and the remaining value.                        *)
(***************************************************************************)

\* The stored entry of channel c is present and its window has passed at `now`.
Expired(c, now) ==
  LET e == getStoredData(rlStore, getStorageKey(RLSession, c))
  IN e.present /\ now - e.timestamp > windowMs

\* C34: a checkRateLimit call that finds an entry whose window (windowMs) has
\* passed returns the result, and leaves the stored entry, of the same call
\* made with no entry: allowed, remaining maxRequests - 1, resetTime now +
\* windowMs, stored count 1 with the window starting now.
C34_ExpiredAsAbsent ==
  [][\A c \in RLChannels, d \in RLDelays :
       (checkRateLimit(c, d) /\ Expired(c, rlNow + d)) =>
         LET key == getStorageKey(RLSession, c)
             fresh == Decide(NoEntry, rlNow', burstLimit, burstWindowMs)
             last == rlLog'[c][Len(rlLog'[c])]
         IN /\ last = [t |-> rlNow', allowed |-> fresh.allowed,
                       remaining |-> fresh.remaining, resetTime |-> fresh.resetTime]
            /\ rlStore'[key] = setStoredData(rlStore, key, fresh)[key]
            /\ rlStore'[key] = [present |-> TRUE, count |-> 1, timestamp |-> rlNow']
    ]_vars

\* C34 witness: a channel was called, then called again after its window had
\* passed, and the second call was answered as a first one.
C34_Witness ==
  \E c \in RLChannels :
    LET L == rlLog[c] IN
    /\ Len(L) = 2
    /\ L[2].t - L[1].t > windowMs
    /\ L[2].allowed /\ L[2].remaining = L[1].remaining /\ L[2].resetTime = L[2].t + windowMs
    /\ rlStore[getStorageKey(RLSession, c)] = [present |-> TRUE, count |-> 1, timestamp |-> L[2].t]

RECURSIVE FurtherAllowed(_, _, _)
\* The calls, of n made one after the other at time `now` on the stored
\* entry, that checkRateLimit allows.
FurtherAllowed(entry, now, n) ==
  IF n = 0 THEN 0
  ELSE LET r == Decide(entry, now, burstLimit, burstWindowMs)
       IN IF r.allowed
          THEN 1 + FurtherAllowed([present |-> TRUE, count |-> r.count,
                                   timestamp |-> r.timestamp], now, n - 1)
          ELSE 0

\* C39: the remaining value of an allowed call is the number of calls for the
\* same key that would be allowed immediately after it.
C39_RemainingIsHeadroom ==
  [][\A c \in RLChannels, d \in RLDelays :
       (checkRateLimit(c, d) /\ rlLog'[c][Len(rlLog'[c])].allowed) =>
         rlLog'[c][Len(rlLog'[c])].remaining =
           FurtherAllowed(rlStore'[getStorageKey(RLSession, c)], rlNow', burstLimit + 1)
    ]_vars

(***************************************************************************)
(* Feed controller: the end of pagination and the loading flag.            *)
(***************************************************************************)

\* The step ends a load-more of invocation i (a page applied, or the catch).
EndsLoadMore(i) ==
  \/ \E ok \in BOOLEAN : MoreCacheResolve(i, ok) /\ tasks'[i].pc = "done"
  \/ \E ok \in BOOLEAN : MoreServerResolve(i, ok)

\* C36: a load-more of the channel on display, started from the current
\* cursor, turns the more-available flag off only when the store holds no
\* message of the channel older than the cursor it leaves.
C36_EndOnlyWhenExhausted ==
  [][\A i \in DOMAIN tasks :
       (/\ EndsLoadMore(i)
        /\ mounted /\ tasks[i].channel = channel /\ tasks[i].cursor = oldestDoc
        /\ hasMore /\ ~hasMore') =>
         {m \in AllDocs : docs[m] = channel /\ m < oldestDoc'} = {}
    ]_vars

\* C37: whenever the loading flag of the mounted view is set, it is cleared
\* later (or the view is closed).
C37_LoadingCleared ==
  [](mounted /\ isLoading => <>(~isLoading \/ ~mounted))

(***************************************************************************)
(* The composer: claims.                                                   *)
(***************************************************************************)

\* C31: no step removes a message document or changes anything of an existing
\* one but its reported flag and its report count, and a document that a
\* step creates has reported = false and report count 0.
C31_OnlyReportFieldsMutate ==
  [][/\ Len(cStore') >= Len(cStore)
     /\ \A m \in DOMAIN cStore :
          [cStore'[m] EXCEPT !.reported = cStore[m].reported,
                             !.report_count = cStore[m].report_count] = cStore[m]
     /\ \A m \in DOMAIN cStore' \ DOMAIN cStore :
          ~cStore'[m].reported /\ cStore'[m].report_count = 0
    ]_vars

\* C31 witness: a message was reported, both updates applied, and another
\* message sent by this client exists beside it.
C31_Witness ==
  /\ Len(cStore) = 2
  /\ cStore[1].reported /\ cStore[1].report_count = 1
  /\ cStore[1].created_at = 1 /\ cStore[1].username = Them
  /\ cStore[2].username = Me /\ ~cStore[2].reported
  /\ cReports = <<>>

\* The reply fields of a message document or of messageData.
ReplyLink(d) == <<d.replyToMessageId, d.replyToContent, d.replyToUsername>>

\* C32: handleReply selects the id, body and author of the displayed message;
\* sendMessage puts the selected target into the message (no reply field when
\* none is selected); the document created carries that link, which names the
\* body and author the target has in the store; and the step in which addDoc
\* succeeds clears the reply target.
C32_ReplyLink ==
  [][/\ \A i \in DOMAIN cWindow :
          handleReply(i) =>
            LET t == cWindow[i].id
            IN cReply' = [id |-> t, content |-> cStore[t].content,
                          username |-> cStore[t].username]
     /\ \A text \in ChatTexts :
          sendMessage(text) =>
            /\ ReplyLink(cSends'[Len(cSends')].data)
                 = <<cReply.id, cReply.content, cReply.username>>
            /\ cReply = NoReply => ReplyLink(cSends'[Len(cSends')].data) = <<0, "", "">>
     /\ \A j \in DOMAIN cSends :
          ChatAddDocResolve(j, TRUE) =>
            /\ ReplyLink(cStore'[Len(cStore')]) = ReplyLink(cSends[j].data)
            /\ cReply' = NoReply
     /\ \A m \in DOMAIN cStore' :
          cStore'[m].replyToMessageId # 0 =>
            /\ cStore'[m].replyToMessageId \in DOMAIN cStore'
            /\ cStore'[m].replyToContent = cStore'[cStore'[m].replyToMessageId].content
            /\ cStore'[m].replyToUsername = cStore'[cStore'[m].replyToMessageId].username
    ]_vars

\* C32 witness: this client replied to message 1; the reply is stored with
\* the link and the reply target is cleared.
C32_Witness ==
  /\ Len(cStore) = 2
  /\ cStore[2].username = Me
  /\ ReplyLink(cStore[2]) = <<1, cStore[1].content, cStore[1].username>>
  /\ cStore[1].content # cStore[2].content
  /\ cReply = NoReply
  /\ cSends = <<>>

\* The store holds message m as reported while the copy on display is not.
StaleCopy(m) ==
  /\ m \in DOMAIN cStore
  /\ cStore[m].reported
  /\ \E i \in DOMAIN cWindow : cWindow[i].id = m /\ ~cWindow[i].reported

\* C35: a displayed message that the store holds as reported does not keep an
\* unreported copy in the window for ever: the copy becomes reported (or the
\* channel is loaded again).
C35_ReportedReachesWindow ==
  \A m \in 1..MaxChatDocs : [](StaleCopy(m) => <>~StaleCopy(m))

\* C38: the reply-link of every stored message names a message of the same
\* channel.
C38_ReplyWithinChannel ==
  \A m \in DOMAIN cStore :
    cStore[m].replyToMessageId # 0 =>
      cStore[cStore[m].replyToMessageId].channel = cStore[m].channel

(***************************************************************************)
(* Display names and the RTDB connection: claims.                          *)
(***************************************************************************)

\* The step ends the j-th pending handleUsernameSet of client c: the sign-in
\* failed or gave no user id, or the transaction settled.
CompletesNameCall(c, j) ==
  \/ \E r \in NameAuthResults \ {"ok"} : NameAuthResolve(c, j, r)
  \/ \E ok \in BOOLEAN : NameTxnResolve(c, j, ok)

\* C33: the RTDB connection of a client is online only while one of its
\* handleUsernameSet calls is in progress (so it is offline after the page
\* load and after a call on a blank name), every call on a name opens it
\* before its first await, and every way of completing a call leaves it
\* offline.
C33_ConnectionOnlyForReservation ==
  /\ [](\A c \in NameClients : nOnline[c] => Len(nCalls[c]) > 0)
  /\ [][\A c \in NameClients :
          /\ \A input \in NameInputs :
               (handleUsernameSet(c, input) /\ Trim(input) # "") =>
                 /\ nOnline'[c]
                 /\ nCalls'[c][Len(nCalls'[c])].pc \in {"auth", "txn"}
          /\ \A j \in DOMAIN nCalls[c] : CompletesNameCall(c, j) => ~nOnline'[c]
       ]_vars

\* C33 witness: client 1 has reserved its name and is offline again with no
\* call pending, while client 2 is online for a call in progress.
C33_Witness ==
  /\ nUsername[1] = "Bob" /\ nCalls[1] = <<>> /\ ~nOnline[1]
  /\ Len(nCalls[2]) = 1 /\ nCalls[2][1].pc = "txn" /\ nOnline[2]

\* The step ends a handleUsernameSet of client c without adopting a name.
FailsNameCall(c, j) ==
  /\ CompletesNameCall(c, j)
  /\ nLast' # NoToast

\* C40: a client's username and its stored name are empty or a name whose
\* lower-cased key is reserved for the client's subject id; two clients never
\* hold names with the same key; and a call that fails changes neither the
\* reservations nor the client's username and stored name.
C40_NameAdoptedOnlyIfReserved ==
  /\ [](\A c \in NameClients :
          /\ nUsername[c] # "" => nRecords[Lower(nUsername[c])].userId = c
          /\ nStored[c] # "" => nRecords[Lower(nStored[c])].userId = c
          /\ \A d \in NameClients \ {c} :
               (nUsername[c] # "" /\ nUsername[d] # "") =>
                 Lower(nUsername[c]) # Lower(nUsername[d]))
  /\ [][\A c \in NameClients : \A j \in DOMAIN nCalls[c] :
          FailsNameCall(c, j) =>
            /\ nRecords' = nRecords
            /\ nUsername' = nUsername
            /\ nStored' = nStored
       ]_vars

\* C40 witness: client 1 holds "Bob"; client 2 asked for "bob", was refused
\* and has no name; the reservation still names client 1.
C40_Witness ==
  /\ nUsername[1] = "Bob" /\ nStored[1] = "Bob"
  /\ nRecords["bob"] = [username |-> "Bob", userId |-> 1]
  /\ nLast = "Username unavailable"
  /\ nUsername[2] = "" /\ nStored[2] = "" /\ nCalls[2] = <<>>

====
